---- MODULE Spec2Model ----
(***************************************************************************)
(* A model of ssb-project-cli: the create pipeline, the build pipeline,    *)
(* the package source manager and the kernel patch step.                   *)
(*                                                                         *)
(* A run of one entry point is modelled; a build and a kernel patch can be  *)
(* run again on what they left.  cmd names the entry point:                *)
(*   "create"  create_project            (create/create.py)                *)
(*   "build"   build_project             (build/build.py)                  *)
(*   "source"  the package source manager on its own (build/poetry.py)     *)
(*   "attach"  ipykernel_attach_bashrc on its own (build/build.py)         *)
(*   "legacy"  build of the first generation CLI (app.py)                  *)
(* and the helper functions on their own, one call each:                   *)
(*   "lockcheck" should_update_lock_file          (build/poetry.py)        *)
(*   "verify"    verify_local_config              (build/environment.py)   *)
(*   "locate"    get_project_name_and_root_path   (util.py)                *)
(*   "exec"      execute_command                  (util.py)                *)
(*   "nokernel"  handle_no_kernel_argument        (util.py)                *)
(*   "template"  create_project_from_template     (create/local_repo.py)   *)
(*   "reset"     reset_project_git_configuration  (create/local_repo.py)   *)
(* External commands (poetry, git, cruft, the kernel registry) succeed or  *)
(* fail nondeterministically; on success they have the effect their        *)
(* contract gives them.                                                    *)
(***************************************************************************)
EXTENDS Naturals, Sequences, FiniteSets

\* ------------------------------------------------------------------ bounds

\* longest poetry.lock text (in characters) a run starts with
MaxLockLen == 2
\* longest launch argument list a kernel descriptor starts with
MaxArgvLen == 2
\* longest local .gitattributes / .gitignore text (in characters)
MaxLocalLen == 3
\* longest template .gitattributes / .gitignore text (in characters)
MaxRemoteLen == 2
\* longest chain of directories from the start path up to the filesystem root
MaxDepth == 3
\* the builds of one project after its first
MaxRuns == 1

\* ------------------------------------------------------------- text values

\* Texts are sequences of characters, so that "a in b" is a real substring test.
Chars == {"n", "x"}

\* All texts of at most n characters.
RECURSIVE TextsUpTo(_)
TextsUpTo(n) ==
    IF n = 0 THEN {<<>>}
    ELSE LET shorter == TextsUpTo(n - 1)
         IN shorter \cup {Append(t, c) : t \in {s \in shorter : Len(s) = n - 1}, c \in Chars}

\* Python's "needle in haystack" for strings.
Contains(haystack, needle) ==
    \E i \in 0..Len(haystack) :
        /\ i + Len(needle) <= Len(haystack)
        /\ SubSeq(haystack, i + 1, i + Len(needle)) = needle

\* The values PIP_INDEX_URL can have: unset (the empty string), a URL, and a
\* second URL of which the first is a prefix.
IndexUrls == {<<>>, <<"n">>, <<"n", "x">>}

\* The values JUPYTER_IMAGE_SPEC can have, as sequences of words.
ImageSpecs == {<<>>, <<"jupyter", "cloud">>, <<"jupyter", "onprem">>}

running_onprem(image_spec) == \E i \in 1..Len(image_spec) : image_spec[i] = "onprem"

\* ------------------------------------------------------------- path values

\* A path is the sequence of its "/"-separated parts: "/venv/bin/python" is
\* <<"", "venv", "bin", "python">>, the bare word "python" is <<"python">>.
ResourceDir == <<"", "kernels", "proj">>
VenvPython == <<"", "venv", "bin", "python">>
VenvPython3 == <<"", "venv", "bin", "python3">>
StartScript == Append(ResourceDir, "python.sh")
ForeignScript == <<"", "opt", "python.sh">>
BarePython == <<"python">>
NotPython == <<"", "venv", "bin", "doesnotexist">>
LauncherArgs == << <<"-m">>, <<"ipykernel_launcher">>, <<"-f">>, <<"{connection_file}">> >>

ArgvEntries == {VenvPython, VenvPython3, StartScript, ForeignScript, BarePython, NotPython, <<"-m">>}

\* ------------------------------------------------------------------- state

VARIABLES
    cmd,          \* the entry point this run executes
    pc,           \* the statement the run is at; "done" and "terminated" are final
    inp,          \* the arguments and environment variables of the run
    projDir,      \* working_directory/project_name: "absent", "dir" or "file"
    source,       \* the project's package source registration and its poetry.lock
    kernel,       \* the kernel registry entry, its descriptor and wrapper script
    exe,          \* ipykernel_attach_bashrc's local python_executable_path
    atEntry,      \* the kernel and source state when the step that uses them began
    events,       \* what the run did so far, in order
    raised,       \* the exception or exit that ended a step, if any
    exitStatus,   \* the exit status of the process: "running" until it ends
    args,         \* the arguments and the files a helper function is called with
    ret,          \* the value the helper function returned, NoReturn before
    disk,         \* the temporary directories the run made, and what is in them
    runs          \* what each earlier build of this project left, oldest first

vars == <<cmd, pc, inp, projDir, source, kernel, exe, atEntry, events, raised, exitStatus,
          args, ret, disk, runs>>

\* the pipelines are not a call of a helper function
NoCall == [function |-> "none"]
NoReturn == [returned |-> FALSE]
\* "return value"
Returned(value) == [returned |-> TRUE, value |-> value]

\* no temporary directory was made
NoTempDir == [exists |-> FALSE, readonly |-> {}]
NoDisk == [temp_dir |-> NoTempDir]

NoRaise == [kind |-> "none", code |-> "none"]

\* "no value": Python's None for a path, and an empty launch argument list
None == <<>>

Did(e) == \E i \in 1..Len(events) : events[i] = e
Count(e) == Cardinality({i \in 1..Len(events) : events[i] = e})
\* every a in events is before every b in events
AllBefore(a, b) ==
    \A i, j \in 1..Len(events) : (events[i] = a /\ events[j] = b) => i < j
Log(es) == events' = events \o es

\* The exit status the interpreter gives the process when this reaches the top
\* level: sys.exit() and sys.exit(0) give 0, sys.exit(1) gives 1, an uncaught
\* exception gives 1, an uncaught KeyboardInterrupt 130.
StatusOf(kind, code) ==
    CASE kind = "SystemExit" /\ code \in {"0", "None"} -> "0"
      [] kind = "SystemExit" -> "1"
      [] kind = "KeyboardInterrupt" -> "130"
      [] OTHER -> "1"

\* A step raises (sys.exit raises SystemExit).  Inside create_project's try block
\* the handlers of create_project get it; anywhere else it ends the process.
Raise(kind, code) ==
    /\ raised' = [kind |-> kind, code |-> code]
    /\ IF cmd = "create"
       THEN pc' = "c_except" /\ exitStatus' = exitStatus
       ELSE pc' = "terminated" /\ exitStatus' = StatusOf(kind, code)

\* A step completes and control moves on; reaching "done" is a normal return
\* of the entry point, exit status 0.
Goto(next) ==
    /\ pc' = next
    /\ raised' = raised
    /\ exitStatus' = IF next = "done" THEN "0" ELSE exitStatus

\* where control goes when build_project returns
AfterBuild ==
    IF cmd = "create" THEN (IF inp.add_github THEN "c_github" ELSE "c_gitinit") ELSE "done"
\* where control goes when ipykernel_attach_bashrc returns
AfterAttach == IF cmd = "attach" THEN "done" ELSE AfterBuild

\* ------------------------------------------------- kernel patch: build.py

\* re.match(r"^.*(?:/python3|/python|/python\.sh)$", entry)
MatchesPythonPattern(arg) ==
    /\ Len(arg) >= 2
    /\ arg[Len(arg)] \in {"python3", "python", "python.sh"}

RECURSIVE FirstMatch(_)
FirstMatch(argv) ==
    IF argv = <<>> THEN None
    ELSE IF MatchesPythonPattern(Head(argv)) THEN Head(argv)
    ELSE FirstMatch(Tail(argv))

\* matches[0] if len(matches) >= 1 else None
_get_python_executable_path(argv) == FirstMatch(argv)

EndsWithPythonSh_own_script_only(path) == path = StartScript

\* python_executable_path.endswith("/python.sh")
EndsWithPythonSh(path) == Len(path) >= 2 /\ path[Len(path)] = "python.sh"

\* content_as_json["argv"] = [start_script_path, "-m", "ipykernel_launcher", "-f", "{connection_file}"]
PatchedArgv == <<StartScript>> \o LauncherArgs

StartScriptContent_execs_without_arguments(python_executable_path) ==
    [exists |-> TRUE, shebang |-> "bash", sources |-> "$HOME/.bashrc",
     execs |-> python_executable_path, forwards |-> ""]

\* the three lines _write_start_script writes: "#!/usr/bin/env bash",
\* "source $HOME/.bashrc", "exec <python_executable_path> $@"
StartScriptContent(python_executable_path) ==
    [exists |-> TRUE, shebang |-> "bash", sources |-> "$HOME/.bashrc",
     execs |-> python_executable_path, forwards |-> "$@"]

NoScript == [exists |-> FALSE, shebang |-> "", sources |-> "", execs |-> None, forwards |-> ""]

\* kernels = get_kernels_dict(); if project_name not in kernels: exit 1
attach_check_kernel ==
    /\ pc = "a_kernel"
    /\ IF kernel.registered
       THEN Log(<<"check:kernel">>) /\ Goto("a_resdir")
       ELSE Log(<<"check:kernel", "print:kernel_not_found">>) /\ Raise("SystemExit", "1")
    /\ UNCHANGED <<runs, disk, args, ret, cmd, inp, projDir, source, kernel, exe, atEntry>>

\* if not Path(project_kernel_path).exists(): exit 1
attach_check_resource_dir ==
    /\ pc = "a_resdir"
    /\ IF kernel.resDir
       THEN Log(<<"check:resource_dir">>) /\ Goto("a_descfile")
       ELSE Log(<<"check:resource_dir", "print:path_does_not_exist">>) /\ Raise("SystemExit", "1")
    /\ UNCHANGED <<runs, disk, args, ret, cmd, inp, projDir, source, kernel, exe, atEntry>>

\* if not Path(kernel_json_file).exists(): exit 1
attach_check_descriptor ==
    /\ pc = "a_descfile"
    /\ IF kernel.desc.kind # "absent"
       THEN Log(<<"check:descriptor">>) /\ Goto("a_parse")
       ELSE Log(<<"check:descriptor", "print:file_does_not_exist">>) /\ Raise("SystemExit", "1")
    /\ UNCHANGED <<runs, disk, args, ret, cmd, inp, projDir, source, kernel, exe, atEntry>>

attach_parse_patches_before_check ==
    /\ pc = "a_parse"
    /\ kernel.desc.kind = "ok"
    /\ exe' = _get_python_executable_path(kernel.desc.argv)
    /\ kernel' = [kernel EXCEPT !.desc = [kind |-> "ok", argv |-> PatchedArgv]]
    /\ IF exe' = None
       THEN Log(<<"check:argv", "write:kernel.json", "print:cannot_find_python">>) /\ Raise("SystemExit", "1")
       ELSE Log(<<"check:argv", "write:kernel.json">>) /\ Goto("a_patched")
    /\ UNCHANGED <<runs, disk, args, ret, cmd, inp, projDir, source, atEntry>>

\* json.loads(f.read()); _get_python_executable_path(content_as_json["argv"]);
\* if python_executable_path is None: exit 1
attach_parse ==
    /\ pc = "a_parse"
    /\ CASE kernel.desc.kind = "garbage" ->
              /\ Log(<<"check:argv">>) /\ Raise("Exception", "JSONDecodeError")
              /\ exe' = exe
         [] kernel.desc.kind = "noargv" ->
              /\ Log(<<"check:argv">>) /\ Raise("Exception", "KeyError")
              /\ exe' = exe
         [] OTHER ->
              /\ exe' = _get_python_executable_path(kernel.desc.argv)
              /\ IF exe' = None
                 THEN Log(<<"check:argv", "print:cannot_find_python">>) /\ Raise("SystemExit", "1")
                 ELSE Log(<<"check:argv">>) /\ Goto("a_patched")
    /\ UNCHANGED <<runs, disk, args, ret, cmd, inp, projDir, source, kernel, atEntry>>

\* if python_executable_path.endswith("/python.sh"): exit 0
attach_already_patched ==
    /\ pc = "a_patched"
    /\ IF EndsWithPythonSh(exe)
       THEN Log(<<"print:already_mounted">>) /\ Raise("SystemExit", "0")
       ELSE Log(<<>>) /\ Goto("a_write_desc")
    /\ UNCHANGED <<runs, disk, args, ret, cmd, inp, projDir, source, kernel, exe, atEntry>>

\* with open(kernel_json_file, "w") as f: f.write(json.dumps(content_as_json))
\* open or write can fail; a write that fails after open leaves a truncated file.
attach_write_descriptor ==
    /\ pc = "a_write_desc"
    /\ \/ /\ kernel' = [kernel EXCEPT !.desc = [kind |-> "ok", argv |-> PatchedArgv]]
          /\ Log(<<"write:kernel.json">>) /\ Goto("a_write_script")
       \/ /\ kernel' = kernel
          /\ Log(<<>>) /\ Raise("Exception", "OSError")
       \/ /\ kernel' = [kernel EXCEPT !.desc = [kind |-> "garbage", argv |-> None]]
          /\ Log(<<"write:kernel.json">>) /\ Raise("Exception", "OSError")
    /\ UNCHANGED <<runs, disk, args, ret, cmd, inp, projDir, source, exe, atEntry>>

\* _write_start_script(start_script_path, python_executable_path)
_write_start_script ==
    /\ pc = "a_write_script"
    /\ \/ /\ kernel' = [kernel EXCEPT
                 !.wrapper = StartScriptContent(exe),
                 !.mode = IF kernel.wrapper.exists THEN kernel.mode ELSE "0644"]
          /\ Log(<<"write:python.sh">>) /\ Goto("a_chmod")
       \/ /\ kernel' = kernel
          /\ Log(<<>>) /\ Raise("Exception", "OSError")
    /\ UNCHANGED <<runs, disk, args, ret, cmd, inp, projDir, source, exe, atEntry>>

\* os.chmod(start_script_path, 0o555)
attach_chmod ==
    /\ pc = "a_chmod"
    /\ \/ /\ kernel' = [kernel EXCEPT !.mode = "0555"]
          /\ Log(<<"chmod:python.sh">>) /\ Goto(AfterAttach)
       \/ /\ kernel' = kernel
          /\ Log(<<>>) /\ Raise("Exception", "OSError")
    /\ UNCHANGED <<runs, disk, args, ret, cmd, inp, projDir, source, exe, atEntry>>

\* ipykernel_attach_bashrc(project_name) is called again on the kernel an
\* earlier call patched
ipykernel_attach_bashrc_again ==
    /\ cmd = "attach" /\ pc = "done"
    /\ Len(runs) < MaxRuns
    /\ runs' = Append(runs, [source |-> source, kernel |-> kernel])
    /\ pc' = "a_kernel"
    /\ events' = <<>>
    /\ raised' = NoRaise
    /\ exitStatus' = "running"
    /\ exe' = None
    /\ atEntry' = [kernel |-> kernel, source |-> source]
    /\ UNCHANGED <<disk, args, ret, cmd, inp, projDir, source, kernel>>

ipykernel_attach_bashrc ==
    \/ ipykernel_attach_bashrc_again
    \/ attach_check_kernel
    \/ attach_check_resource_dir
    \/ attach_check_descriptor
    \/ attach_parse
    \/ attach_already_patched
    \/ attach_write_descriptor
    \/ _write_start_script
    \/ attach_chmod

\* ------------------------------------- package source manager: poetry.py

\* where control goes when the package source manager returns
AfterSource == IF cmd = "source" THEN "done" ELSE "b_install"

\* execute_command with a non-zero exit status: print the failure message,
\* create_error_log(log, command_shortname), sys.exit(1)
CommandFails(command_shortname) ==
    /\ Log(<<"run:" \o command_shortname, "print:failure", "log:" \o command_shortname>>)
    /\ Raise("SystemExit", "1")

\* execute_command with exit status 0, going on at next
CommandSucceeds(command_shortname, then, next) ==
    /\ Log(<<"run:" \o command_shortname>> \o then)
    /\ Goto(next)

LockAfterRefresh_appends_to_old(src) == src.lockText \o <<"x">>

\* What "poetry lock --no-update" leaves in poetry.lock: the packages, each with
\* the URL of the source it is resolved from when a source is registered.
LockAfterRefresh(src) == <<"x">> \o (IF src.registered THEN src.url ELSE <<>>)

should_update_lock_file_true_without_lock(source_url, src) ==
    IF src.lockExists
    THEN IF Contains(src.lockText, source_url) THEN FALSE ELSE TRUE
    ELSE TRUE

\* if isfile(lock): if source_url in lock.read(): return False / else: return False / return True
should_update_lock_file(source_url, src) ==
    IF src.lockExists
    THEN IF Contains(src.lockText, source_url) THEN FALSE ELSE TRUE
    ELSE FALSE

\* return source_name in result.stdout.decode("utf-8")
poetry_source_includes_source_name(src) == src.registered

RemoveUpdatesLock_always(lock_update) == TRUE

\* poetry_source_remove: if lock_update: update_lock(cwd)
RemoveUpdatesLock(lock_update) == lock_update

\* The lock_update argument the source manager passes to poetry_source_remove:
\* no lock refresh when the source is added again right after.
LockUpdateArgument == ~running_onprem(inp.image_spec)

\* running_onprem(JUPYTER_IMAGE_SPEC), then poetry_source_includes_source_name(cwd)
\* and the choice among the four cases
check_and_fix_onprem_source ==
    /\ pc = "s_check"
    /\ \/ CommandFails("poetry-source-show")
       \/ LET onprem == running_onprem(inp.image_spec)
              included == poetry_source_includes_source_name(source)
          IN CommandSucceeds("poetry-source-show",
                 <<"call:running_onprem", "call:includes">>,
                 CASE included -> "s_remove"
                   [] onprem /\ ~included -> "s_add"
                   [] OTHER -> AfterSource)
    /\ UNCHANGED <<runs, disk, args, ret, cmd, inp, projDir, source, kernel, exe, atEntry>>

\* execute_command("poetry source remove nexus"); if lock_update: update_lock(cwd)
poetry_source_remove ==
    /\ pc = "s_remove"
    /\ \/ /\ Log(<<"call:remove">>  \o <<"run:source-remove", "print:failure", "log:source-remove">>)
          /\ Raise("SystemExit", "1")
          /\ source' = source
       \/ /\ source' = [source EXCEPT !.registered = FALSE, !.url = None]
          /\ Log(<<"call:remove", "run:source-remove">>)
          /\ Goto(IF RemoveUpdatesLock(LockUpdateArgument) THEN "s_remove_lock"
                  ELSE IF running_onprem(inp.image_spec) THEN "s_add" ELSE AfterSource)
    /\ UNCHANGED <<runs, disk, args, ret, cmd, inp, projDir, kernel, exe, atEntry>>

\* the update_lock(cwd) of poetry_source_remove
update_lock_after_remove ==
    /\ pc = "s_remove_lock"
    /\ \/ CommandFails("update_lock") /\ source' = source
       \/ /\ source' = [source EXCEPT !.lockExists = TRUE, !.lockText = LockAfterRefresh(source)]
          /\ CommandSucceeds("update_lock", <<>>,
                 IF running_onprem(inp.image_spec) THEN "s_add" ELSE AfterSource)
    /\ UNCHANGED <<runs, disk, args, ret, cmd, inp, projDir, kernel, exe, atEntry>>

poetry_source_add_always_refreshes ==
    /\ pc = "s_add"
    /\ \/ /\ Log(<<"call:add", "run:poetry-source-add", "print:failure", "log:poetry-source-add">>)
          /\ Raise("SystemExit", "1")
          /\ source' = source
       \/ /\ source' = [source EXCEPT !.registered = TRUE, !.url = inp.pip_index_url]
          /\ Log(<<"call:add", "run:poetry-source-add", "call:should_update_lock_file">>)
          /\ Goto("s_add_lock")
    /\ UNCHANGED <<runs, disk, args, ret, cmd, inp, projDir, kernel, exe, atEntry>>

\* execute_command("poetry source add --priority=default nexus <url>");
\* if should_update_lock_file(source_url, cwd): update_lock(cwd)
poetry_source_add ==
    /\ pc = "s_add"
    /\ \/ /\ Log(<<"call:add", "run:poetry-source-add", "print:failure", "log:poetry-source-add">>)
          /\ Raise("SystemExit", "1")
          /\ source' = source
       \/ /\ source' = [source EXCEPT !.registered = TRUE, !.url = inp.pip_index_url]
          /\ Log(<<"call:add", "run:poetry-source-add", "call:should_update_lock_file">>)
          /\ Goto(IF should_update_lock_file(inp.pip_index_url, source) THEN "s_add_lock"
                  ELSE AfterSource)
    /\ UNCHANGED <<runs, disk, args, ret, cmd, inp, projDir, kernel, exe, atEntry>>

\* the update_lock(cwd) of poetry_source_add
update_lock_after_add ==
    /\ pc = "s_add_lock"
    /\ \/ CommandFails("update_lock") /\ source' = source
       \/ /\ source' = [source EXCEPT !.lockExists = TRUE, !.lockText = LockAfterRefresh(source)]
          /\ CommandSucceeds("update_lock", <<>>, AfterSource)
    /\ UNCHANGED <<runs, disk, args, ret, cmd, inp, projDir, kernel, exe, atEntry>>

PackageSourceManager ==
    \/ check_and_fix_onprem_source
    \/ poetry_source_remove
    \/ update_lock_after_remove
    \/ poetry_source_add
    \/ update_lock_after_add

\* ------------------------------------------------ build pipeline: build.py

\* if verify_config: validate_and_fix_git_config(...)
AfterLocate == IF inp.verify_config THEN "b_gitconfig" ELSE "b_source"

AfterInstall_ignores_no_kernel == "b_kinstall"

\* if not no_kernel: install_ipykernel(...); ipykernel_attach_bashrc(...)
AfterInstall == IF ~inp.no_kernel THEN "b_kinstall" ELSE AfterBuild

\* get_project_name_and_root_path(project_directory);
\* if project_name is None or project_root is None: print, sys.exit()
build_locate ==
    /\ pc = "b_locate"
    /\ CASE inp.locate = "found" ->
              /\ Log(<<"step:locate">>)
              /\ Goto(AfterLocate)
         [] inp.locate = "none" ->
              /\ Log(<<"step:locate", "print:could_not_find_project_root">>)
              /\ Raise("SystemExit", "None")
         [] OTHER ->
              /\ Log(<<"step:locate">>)
              /\ Raise("Exception", "TOMLDecodeError")
    /\ UNCHANGED <<runs, disk, args, ret, cmd, inp, projDir, source, kernel, exe, atEntry>>

\* reset_project_git_configuration: the copy of the two files succeeds or fails;
\* the "Restored" message is printed after the try statement either way
reset_project_git_configuration(ok) ==
    IF ok THEN <<"reset:project", "print:restored">>
    ELSE <<"reset:project", "print:could_not_restore",
           "log:reset_project_git_configuration", "print:restored">>

\* changed_files = f"{(".gitconfig", "")[valid_global]} {(".gitattributes and .gitignore", "")[valid_project]}"
ChangedFiles(valid_global, valid_project) ==
    (IF valid_global THEN "" ELSE ".gitconfig") \o " "
    \o (IF valid_project THEN "" ELSE ".gitattributes and .gitignore")

confirm_fix_ssb_git_config_resets_both(valid_global, valid_project, answer, copy_ok) ==
    <<"prompt:" \o ChangedFiles(valid_global, valid_project),
      IF answer THEN "answer:yes" ELSE "answer:no">>
    \o (IF answer THEN <<"reset:global">> ELSE <<>>)
    \o (IF answer THEN reset_project_git_configuration(copy_ok) ELSE <<>>)

\* confirm_fix_ssb_git_config: typer.confirm, which asks until it gets yes or no,
\* then the resets of what is not valid
confirm_fix_ssb_git_config(valid_global, valid_project, answer, copy_ok) ==
    <<"prompt:" \o ChangedFiles(valid_global, valid_project),
      IF answer THEN "answer:yes" ELSE "answer:no">>
    \o (IF answer /\ ~valid_global THEN <<"reset:global">> ELSE <<>>)
    \o (IF answer /\ ~valid_project THEN reset_project_git_configuration(copy_ok) ELSE <<>>)

\* validate_and_fix_git_config(template_repo_url, checkout, project_name, project_root)
validate_and_fix_git_config ==
    /\ pc = "b_gitconfig"
    /\ \/ \E valid_global, valid_project, answer, copy_ok \in BOOLEAN :
            /\ Log(<<"step:git_config",
                     IF valid_global THEN "valid_global:yes" ELSE "valid_global:no",
                     IF valid_project THEN "valid_project:yes" ELSE "valid_project:no">>
                   \o (IF ~(valid_global /\ valid_project)
                       THEN <<"print:git_status">>
                            \o confirm_fix_ssb_git_config(valid_global, valid_project, answer, copy_ok)
                       ELSE <<>>))
            /\ Goto("b_source")
       \/ /\ Log(<<"step:git_config">>)
          /\ Raise("Exception", "GitCommandError")
    /\ UNCHANGED <<runs, disk, args, ret, cmd, inp, projDir, source, kernel, exe, atEntry>>

\* check_and_remove_onprem_source(project_root)
build_source ==
    /\ pc = "b_source"
    /\ Log(<<"step:source">>)
    /\ Goto("s_check")
    /\ atEntry' = [atEntry EXCEPT !.source = source]
    /\ UNCHANGED <<runs, disk, args, ret, cmd, inp, projDir, source, kernel, exe>>

\* poetry_install(project_root): "poetry install" writes poetry.lock when there is none
poetry_install ==
    /\ pc = "b_install"
    /\ \/ /\ Log(<<"step:install", "run:poetry-install", "print:failure", "log:poetry-install">>)
          /\ Raise("SystemExit", "1")
          /\ source' = source
       \/ /\ source' = IF source.lockExists THEN source
                       ELSE [source EXCEPT !.lockExists = TRUE, !.lockText = LockAfterRefresh(source)]
          /\ Log(<<"step:install", "run:poetry-install">>)
          /\ Goto(AfterInstall)
    /\ UNCHANGED <<runs, disk, args, ret, cmd, inp, projDir, kernel, exe, atEntry>>

InstalledKernel_keep_descriptor ==
    [kernel EXCEPT !.registered = TRUE, !.resDir = TRUE]

\* What "python3 -m ipykernel install --user --name <project>" leaves: the
\* resource directory replaced by a new one holding a descriptor that launches
\* the virtual environment's interpreter.
InstalledKernel ==
    [registered |-> TRUE, resDir |-> TRUE,
     desc |-> [kind |-> "ok", argv |-> <<VenvPython>> \o LauncherArgs],
     wrapper |-> NoScript, mode |-> "none"]

\* install_ipykernel(project_root, project_name)
install_ipykernel ==
    /\ pc = "b_kinstall"
    /\ \/ /\ Log(<<"step:kernel_install", "run:install-ipykernel", "print:failure", "log:install-ipykernel">>)
          /\ Raise("SystemExit", "1")
          /\ kernel' = kernel
       \/ /\ kernel' = InstalledKernel
          /\ Log(<<"step:kernel_install", "run:install-ipykernel">>)
          /\ Goto("b_attach")
    /\ UNCHANGED <<runs, disk, args, ret, cmd, inp, projDir, source, exe, atEntry>>

\* ipykernel_attach_bashrc(project_name)
build_attach ==
    /\ pc = "b_attach"
    /\ Log(<<"step:kernel_patch">>)
    /\ Goto("a_kernel")
    /\ atEntry' = [atEntry EXCEPT !.kernel = kernel]
    /\ UNCHANGED <<runs, disk, args, ret, cmd, inp, projDir, source, kernel, exe>>

\* "ssb-project build" is run again on the project an earlier build left:
\* build_project starts over on the same files, with the same arguments and
\* environment
build_project_again ==
    /\ cmd = "build" /\ pc = "done"
    /\ Len(runs) < MaxRuns
    /\ runs' = Append(runs, [source |-> source, kernel |-> kernel])
    /\ pc' = "b_locate"
    /\ events' = <<>>
    /\ raised' = NoRaise
    /\ exitStatus' = "running"
    /\ exe' = None
    /\ atEntry' = [kernel |-> kernel, source |-> source]
    /\ UNCHANGED <<disk, args, ret, cmd, inp, projDir, source, kernel>>

build_project ==
    \/ build_locate
    \/ validate_and_fix_git_config
    \/ build_source
    \/ poetry_install
    \/ install_ipykernel
    \/ build_attach
    \/ build_project_again

\* ---------------------------------------------- create pipeline: create.py

\* The pyproject.toml and poetry.lock a template can ship.
TemplateSources ==
    {[registered |-> FALSE, url |-> None, lockExists |-> FALSE, lockText |-> None],
     [registered |-> FALSE, url |-> None, lockExists |-> TRUE, lockText |-> <<"x">>],
     [registered |-> TRUE, url |-> <<"n">>, lockExists |-> TRUE, lockText |-> <<"x", "n">>]}

\* exit(1) before the try statement
ExitBeforeTry(message) ==
    /\ Log(<<message>>)
    /\ pc' = "terminated"
    /\ raised' = [kind |-> "SystemExit", code |-> "1"]
    /\ exitStatus' = "1"

create_prevalidate_ignores_existing_directory ==
    /\ pc = "c_start"
    /\ CASE inp.memory_full -> ExitBeforeTry("print:memory_full")
         [] ~inp.name_valid -> ExitBeforeTry("print:invalid_repo_name")
         [] inp.add_github /\ ~inp.has_token -> ExitBeforeTry("print:needs_token")
         [] inp.add_github /\ inp.repo_exists -> ExitBeforeTry("print:repo_exists")
         [] OTHER -> Log(<<>>) /\ Goto("c_template")
    /\ UNCHANGED <<runs, disk, args, ret, cmd, inp, projDir, source, kernel, exe, atEntry>>

\* create_project up to the try statement: is_memory_full, valid_repo_name, the
\* GitHub token, is_github_repo, project_directory.exists()
create_prevalidate ==
    /\ pc = "c_start"
    /\ CASE inp.memory_full -> ExitBeforeTry("print:memory_full")
         [] ~inp.name_valid -> ExitBeforeTry("print:invalid_repo_name")
         [] inp.add_github /\ ~inp.has_token -> ExitBeforeTry("print:needs_token")
         [] inp.add_github /\ inp.repo_exists -> ExitBeforeTry("print:repo_exists")
         [] projDir # "absent" -> ExitBeforeTry("print:project_exists")
         [] OTHER -> Log(<<>>) /\ Goto("c_template")
    /\ UNCHANGED <<runs, disk, args, ret, cmd, inp, projDir, source, kernel, exe, atEntry>>

\* create_project_from_template(...): cruft.create makes the project directory;
\* when it fails it may already have made it
create_project_from_template ==
    /\ pc = "c_template"
    /\ \/ \E t \in TemplateSources :
            /\ projDir' = "dir" /\ source' = t
            /\ Log(<<"sub:template">>) /\ Goto("c_build")
       \/ /\ projDir' \in {"absent", "dir"} /\ source' = source
          /\ Log(<<"sub:template">>) /\ Raise("Exception", "CruftError")
    /\ UNCHANGED <<runs, disk, args, ret, cmd, inp, kernel, exe, atEntry>>

\* build_project(project_directory, working_directory, template_repo_url, checkout, verify_config)
create_build ==
    /\ pc = "c_build"
    /\ Log(<<"sub:build">>)
    /\ Goto("b_locate")
    /\ UNCHANGED <<runs, disk, args, ret, cmd, inp, projDir, source, kernel, exe, atEntry>>

\* a collaborator call of the try block: it returns or raises
Collaborator(at, name, next) ==
    /\ pc = at
    /\ \/ Log(<<"sub:" \o name>>) /\ Goto(next)
       \/ Log(<<"sub:" \o name>>) /\ Raise("Exception", "GithubException")
    /\ UNCHANGED <<runs, disk, args, ret, cmd, inp, projDir, source, kernel, exe, atEntry>>

create_github == Collaborator("c_github", "create_github", "c_push")
make_git_repo_and_push == Collaborator("c_push", "push", "c_protect")
set_branch_protection_rules == Collaborator("c_protect", "branch_protection", "c_success")
make_and_init_git_repo == Collaborator("c_gitinit", "git_init", "c_success")

\* the two print calls that end the try block; create_project returns
create_success ==
    /\ pc = "c_success"
    /\ Log(<<"print:created_project", "print:all_done">>)
    /\ Goto("done")
    /\ UNCHANGED <<runs, disk, args, ret, cmd, inp, projDir, source, kernel, exe, atEntry>>

\* Ctrl-C while the try block runs
KeyboardInterrupt ==
    /\ cmd = "create"
    /\ pc \notin {"c_start", "c_except", "done", "terminated"}
    /\ Raise("KeyboardInterrupt", "none")
    /\ UNCHANGED <<runs, disk, args, ret, cmd, inp, projDir, source, kernel, exe, atEntry, events>>

delete_folder_without_rmtree(before) ==
    /\ projDir' = projDir
    /\ Log(before)
    /\ Goto("done")

\* delete_folder(folder): if folder.is_dir(): try: rmtree(folder)
\* except shutil.Error as e: create_error_log(str(e), "delete_dir").
\* rmtree removes the directory, or raises shutil.Error, or raises another
\* OSError, which delete_folder does not catch.
delete_folder(before) ==
    IF projDir = "dir"
    THEN \/ /\ projDir' = "absent"
            /\ Log(before \o <<"rmtree">>)
            /\ Goto("done")
         \/ /\ projDir' = projDir
            /\ Log(before \o <<"rmtree", "log:delete_dir">>)
            /\ Goto("done")
         \/ /\ projDir' = projDir
            /\ Log(before \o <<"rmtree">>)
            /\ pc' = "terminated"
            /\ raised' = [kind |-> "Exception", code |-> "OSError"]
            /\ exitStatus' = StatusOf("Exception", "OSError")
    ELSE /\ projDir' = projDir
         /\ Log(before)
         /\ Goto("done")

\* what the except clause does before delete_folder
HandlerPrologue(caught) ==
    IF caught.kind = "Exception"
    THEN <<"caught:Exception", "log:create">>
    ELSE IF caught.kind = "SystemExit"
    THEN <<"caught:SystemExit:" \o caught.code>>
    ELSE <<"caught:KeyboardInterrupt">>

\* except Exception as e: create_error_log(str(e), "create"); delete_folder(project_directory)
\* except (SystemExit, KeyboardInterrupt): delete_folder(project_directory)
create_except ==
    /\ pc = "c_except"
    /\ delete_folder(HandlerPrologue(raised))
    /\ UNCHANGED <<runs, disk, args, ret, cmd, inp, source, kernel, exe, atEntry>>

create_project ==
    \/ create_prevalidate
    \/ create_project_from_template
    \/ create_build
    \/ create_github
    \/ make_git_repo_and_push
    \/ set_branch_protection_rules
    \/ make_and_init_git_repo
    \/ create_success
    \/ KeyboardInterrupt
    \/ create_except

\* ------------------------------------------- first generation build: app.py

\* a legacy poetry helper raises ValueError when poetry's exit status is not 0
LegacyRaises(call) ==
    /\ Log(<<call>>)
    /\ Raise("Exception", "ValueError")

LegacyFirstCall_includes_first(onprem) == "l_includes"

\* if running_onprem(JUPYTER_IMAGE_SPEC): poetry_source_add(...)
\* elif poetry_source_includes_source_name(project_directory): ...
LegacyFirstCall(onprem) == IF onprem THEN "l_add" ELSE "l_includes"

\* running_onprem(JUPYTER_IMAGE_SPEC)
legacy_build_start ==
    /\ pc = "l_start"
    /\ Log(<<"call:running_onprem">>)
    /\ Goto(LegacyFirstCall(running_onprem(inp.image_spec)))
    /\ UNCHANGED <<runs, disk, args, ret, cmd, inp, projDir, source, kernel, exe, atEntry>>

\* poetry_source_add(PIP_INDEX_URL, project_directory)
legacy_poetry_source_add ==
    /\ pc = "l_add"
    /\ \/ LegacyRaises("call:add") /\ source' = source
       \/ /\ source' = [source EXCEPT !.registered = TRUE, !.url = inp.pip_index_url]
          /\ Log(<<"call:add">>) /\ Goto("l_install")
    /\ UNCHANGED <<runs, disk, args, ret, cmd, inp, projDir, kernel, exe, atEntry>>

\* elif poetry_source_includes_source_name(project_directory):
legacy_poetry_source_includes_source_name ==
    /\ pc = "l_includes"
    /\ \/ LegacyRaises("call:includes")
       \/ /\ Log(<<"call:includes">>)
          /\ Goto(IF poetry_source_includes_source_name(source) THEN "l_remove" ELSE "l_install")
    /\ UNCHANGED <<runs, disk, args, ret, cmd, inp, projDir, source, kernel, exe, atEntry>>

\* poetry_source_remove(project_directory)
legacy_poetry_source_remove ==
    /\ pc = "l_remove"
    /\ \/ LegacyRaises("call:remove") /\ source' = source
       \/ /\ source' = [source EXCEPT !.registered = FALSE, !.url = None]
          /\ Log(<<"call:remove">>) /\ Goto("l_install")
    /\ UNCHANGED <<runs, disk, args, ret, cmd, inp, projDir, kernel, exe, atEntry>>

\* poetry_install(project_directory); install_ipykernel(project_directory, project_name)
legacy_install ==
    /\ pc = "l_install"
    /\ \/ /\ Log(<<"call:poetry_install", "log:poetry-install">>)
          /\ Raise("SystemExit", "1")
          /\ kernel' = kernel
       \/ /\ Log(<<"call:poetry_install", "call:install_ipykernel", "log:install-kernel">>)
          /\ Raise("SystemExit", "1")
          /\ kernel' = kernel
       \/ /\ Log(<<"call:poetry_install", "call:install_ipykernel">>)
          /\ kernel' = InstalledKernel
          /\ Goto("done")
    /\ UNCHANGED <<runs, disk, args, ret, cmd, inp, projDir, source, exe, atEntry>>

legacy_build ==
    \/ legacy_build_start
    \/ legacy_poetry_source_add
    \/ legacy_poetry_source_includes_source_name
    \/ legacy_poetry_source_remove
    \/ legacy_install

\* ------------------------------------------ helper functions, one call each

\* should_update_lock_file(source_url, cwd) called on its own
call_should_update_lock_file ==
    /\ cmd = "lockcheck" /\ pc = "f_call"
    /\ ret' = Returned(should_update_lock_file(args.source_url, source))
    /\ Log(<<"call:should_update_lock_file">>)
    /\ Goto("done")
    /\ UNCHANGED <<runs, disk, args, cmd, inp, projDir, source, kernel, exe, atEntry>>

\* the characters str.strip() removes from both ends of a text
Whitespace == {" ", "\n"}

\* str.strip()
RECURSIVE strip(_)
strip(text) ==
    IF text = <<>> THEN text
    ELSE IF Head(text) \in Whitespace THEN strip(Tail(text))
    ELSE IF text[Len(text)] \in Whitespace THEN strip(SubSeq(text, 1, Len(text) - 1))
    ELSE text

\* str.split("\n"): the pieces between the newlines, one piece for a text without
RECURSIVE split(_)
split(text) ==
    IF \A i \in 1..Len(text) : text[i] # "\n" THEN <<text>>
    ELSE LET i == CHOOSE k \in 1..Len(text) :
                      text[k] = "\n" /\ \A j \in 1..(k - 1) : text[j] # "\n"
         IN <<SubSeq(text, 1, i - 1)>> \o split(SubSeq(text, i + 1, Len(text)))

\* set(file.read().strip().split("\n"))
ContentSet(text) == {split(strip(text))[i] : i \in 1..Len(split(strip(text)))}

\* remote_content.issubset(local_content)
_local_file_contains_remote_lines(local, remote) ==
    ContentSet(remote) \subseteq ContentSet(local)

\* the loop of verify_local_config over [".gitattributes", ".gitignore"]
RECURSIVE VerifyFiles(_)
VerifyFiles(files) ==
    IF files = <<>> THEN TRUE
    ELSE IF ~Head(files).exists THEN FALSE
    ELSE IF ~_local_file_contains_remote_lines(Head(files).local, Head(files).remote) THEN FALSE
    ELSE VerifyFiles(Tail(files))

\* ------------------------------------- TempTemplateRepo: temp_template_repo.py

\* the files and directories a clone of the template puts under its directory
CloneEntries == {".git", ".git/objects/pack"}

\* the entries a clone can leave read-only: none, or the object files of git
ReadOnlyAfterClone == {{}, {".git/objects/pack"}}

\* TemporaryDirectory().name
TempDirName == "/tmp/tmp_clone"

\* str(TemporaryDirectory()): the class has __repr__ and no __str__
str(name) == "<TemporaryDirectory '" \o name \o "'>"

\* os.walk(top): the entries below top; nothing when top is not a directory
os_walk(top, temp_dir) == IF temp_dir.exists /\ top = TempDirName THEN CloneEntries ELSE {}

\* TempTemplateRepo.__enter__: TemporaryDirectory(), Repo.clone_from, git.checkout;
\* cloned is "clone raises", "checkout raises" or "cloned"
__enter__(cloned, left_readonly) ==
    [exists |-> TRUE, readonly |-> IF cloned = "clone raises" THEN {} ELSE left_readonly]

\* TempTemplateRepo._unset_readonly_recursive: os.chmod(path, stat.S_IWRITE) on
\* every entry that os.walk(str(self.temp_dir)) yields
_unset_readonly_recursive(temp_dir) ==
    [temp_dir EXCEPT !.readonly = @ \ os_walk(str(TempDirName), temp_dir)]

\* shutil.rmtree(self.temp_dir.name): removes the tree; where the platform
\* refuses to delete a read-only entry (refuses = TRUE) it raises PermissionError
rmtree_raises(temp_dir, refuses) == refuses /\ temp_dir.readonly # {}
rmtree(temp_dir, refuses) ==
    IF rmtree_raises(temp_dir, refuses) THEN temp_dir ELSE NoTempDir

\* TempTemplateRepo.__exit__
__exit__(temp_dir, refuses) == rmtree(_unset_readonly_recursive(temp_dir), refuses)

\* file_paths of verify_local_config
file_paths == <<".gitattributes", ".gitignore">>

\* what the loop of verify_local_config does with the files from the i-th on:
\* Path(local_file_path).exists(), then _local_file_contains_remote_lines
RECURSIVE VerifySteps(_, _)
VerifySteps(files, i) ==
    IF i > Len(files) THEN <<>>
    ELSE IF ~files[i].exists THEN <<"exists:" \o file_paths[i]>>
    ELSE IF ~_local_file_contains_remote_lines(files[i].local, files[i].remote)
         THEN <<"exists:" \o file_paths[i], "compare:" \o file_paths[i]>>
    ELSE <<"exists:" \o file_paths[i], "compare:" \o file_paths[i]>>
             \o VerifySteps(files, i + 1)

\* verify_local_config(template_repo_url, checkout, cwd).  The with statement
\* runs __exit__ when the block is left, and not when __enter__ raised.
verify_local_config ==
    /\ cmd = "verify" /\ pc = "f_call"
    /\ \E cloned \in {"clone raises", "checkout raises", "cloned"},
          left_readonly \in ReadOnlyAfterClone, refuses \in BOOLEAN :
         LET entered == __enter__(cloned, left_readonly)
         IN IF cloned # "cloned"
            THEN /\ disk' = [disk EXCEPT !.temp_dir = entered]
                 /\ ret' = ret
                 /\ Log(<<"call:clone_template">>)
                 /\ Raise("Exception", "GitCommandError")
            ELSE /\ disk' = [disk EXCEPT !.temp_dir = __exit__(entered, refuses)]
                 /\ Log(<<"call:clone_template", "call:verify_local_config">>
                            \o VerifySteps(args.files, 1) \o <<"call:__exit__">>)
                 /\ IF rmtree_raises(_unset_readonly_recursive(entered), refuses)
                    THEN ret' = ret /\ Raise("Exception", "PermissionError")
                    ELSE ret' = Returned(VerifyFiles(args.files)) /\ Goto("done")
    /\ UNCHANGED <<runs, args, cmd, inp, projDir, source, kernel, exe, atEntry>>

\* What reading the project name from a manifest (.cruft.json, pyproject.toml)
\* does: "absent" no such file (FileNotFoundError), "name" the name is there,
\* "malformed" not JSON / not TOML (JSONDecodeError / TOMLDecodeError), "nokey"
\* a key of the path to the name is missing (KeyError), "badtype" a value on
\* the path to the name is not a table (TypeError).
ManifestStates == {"absent", "name", "malformed", "nokey", "badtype"}

\* {i.name for i in path.iterdir()}.intersection({".cruft.json", "pyproject.toml", ".git"})
HasMarker(dir) == dir.cruft # "absent" \/ dir.pyproject # "absent" \/ dir.git

\* The try statements of get_project_name_and_root_path at the directory dir:
\* except (KeyError, FileNotFoundError, json.JSONDecodeError) around .cruft.json,
\* except (KeyError, FileNotFoundError) around pyproject.toml.
NameFrom(dir, base_name) ==
    CASE dir.cruft = "name" -> [raises |-> FALSE, name |-> "cruft-name"]
      [] dir.cruft = "badtype" -> [raises |-> TRUE, error |-> "TypeError"]
      [] dir.pyproject = "name" -> [raises |-> FALSE, name |-> "pyproject-name"]
      [] dir.pyproject = "malformed" -> [raises |-> TRUE, error |-> "TOMLDecodeError"]
      [] dir.pyproject = "badtype" -> [raises |-> TRUE, error |-> "TypeError"]
      [] OTHER -> [raises |-> FALSE, name |-> base_name]

\* path.name of the i-th of n candidates; the last one is the filesystem root
BaseName(i, n) == IF i = n THEN "" ELSE "dir-name"

\* (None, None)
NoneNone == [name |-> "None", root |-> 0]

\* get_project_name_and_root_path(project_path).  args.paths are the directories
\* from the start path (or, for a start path that is a file, from its parent)
\* up to the filesystem root; a root is returned as its index in args.paths.
get_project_name_and_root_path ==
    /\ cmd = "locate" /\ pc = "f_call"
    /\ Log(<<"call:get_project_name_and_root_path">>)
    /\ LET n == Len(args.paths)
           marked == {i \in 1..n : HasMarker(args.paths[i])}
           first == CHOOSE i \in marked : \A j \in marked : i <= j
       IN CASE args.origin = "missing" ->
                   ret' = Returned(NoneNone) /\ Goto("done")
            [] args.origin = "file" ->
                   ret' = ret /\ Raise("Exception", "NotADirectoryError")
            [] args.origin = "dir" /\ marked = {} ->
                   ret' = Returned(NoneNone) /\ Goto("done")
            [] OTHER ->
                   LET found == NameFrom(args.paths[first], BaseName(first, n))
                   IN IF found.raises
                      THEN ret' = ret /\ Raise("Exception", found.error)
                      ELSE ret' = Returned([name |-> found.name, root |-> first]) /\ Goto("done")
    /\ UNCHANGED <<runs, disk, args, cmd, inp, projDir, source, kernel, exe, atEntry>>

\* Python's truth value of an Optional[str]: None (written "None") and the
\* empty string are false
Truthy(s) == s \notin {"None", ""}

FailureMessage_always_failure_desc(failure_desc, command) == failure_desc

\* if failure_desc: print(failure_desc) else: print("Error while running: " + " ".join(command))
FailureMessage(failure_desc, command) ==
    IF Truthy(failure_desc) THEN failure_desc ELSE "Error while running: " \o command

\* execute_command(command, command_shortname, success_desc, failure_desc).
\* args.returncode is what the command exits with, "cannot start" when
\* subprocess.run cannot start it and raises.
execute_command ==
    /\ cmd = "exec" /\ pc = "f_call"
    /\ CASE args.returncode = "cannot start" ->
               /\ Log(<<"run:" \o args.command>>)
               /\ ret' = ret
               /\ Raise("Exception", "FileNotFoundError")
         [] args.returncode \notin {"cannot start", "0"} ->
               /\ Log(<<"run:" \o args.command,
                        "print:" \o FailureMessage(args.failure_desc, args.command),
                        "log:" \o args.command_shortname>>)
               /\ ret' = ret
               /\ Raise("SystemExit", "1")
         [] OTHER ->
               /\ Log(<<"run:" \o args.command>>
                      \o (IF Truthy(args.success_desc)
                          THEN <<"print:" \o args.success_desc>> ELSE <<>>))
               /\ ret' = Returned([returncode |-> args.returncode])
               /\ Goto("done")
    /\ UNCHANGED <<runs, disk, args, cmd, inp, projDir, source, kernel, exe, atEntry>>

\* os.environ.get("NO_KERNEL") when the variable is not set
Undefined == "<undefined>"

\* bool(s) for a string s: every string but the empty one is true
bool(s) == s # ""

\* handle_no_kernel_argument(no_kernel)
handle_no_kernel_argument ==
    /\ cmd = "nokernel" /\ pc = "f_call"
    /\ CASE args.no_kernel ->
               /\ Log(<<"call:handle_no_kernel_argument">>)
               /\ ret' = Returned(args.no_kernel) /\ Goto("done")
         [] ~args.no_kernel /\ args.NO_KERNEL = Undefined ->
               /\ Log(<<"call:handle_no_kernel_argument">>)
               /\ ret' = Returned(FALSE) /\ Goto("done")
         [] ~args.no_kernel /\ args.NO_KERNEL \notin {Undefined, "True", "False"} ->
               /\ Log(<<"call:handle_no_kernel_argument", "print:invalid_NO_KERNEL">>)
               /\ ret' = ret /\ Raise("SystemExit", "1")
         [] OTHER ->
               /\ Log(<<"call:handle_no_kernel_argument">>)
               /\ ret' = Returned(bool(args.NO_KERNEL)) /\ Goto("done")
    /\ UNCHANGED <<runs, disk, args, cmd, inp, projDir, source, kernel, exe, atEntry>>

\* str(datetime.now().year)
CurrentYear == "current-year"

\* what request_name_email() returns: typer.prompt asks until it gets a value
AskedPair == [full_name |-> "Asked Name", email |-> "asked@ssb.no"]

Identity_keeps_a_given_name(name, email, git_name, git_email) ==
    IF Truthy(name) /\ Truthy(email)
    THEN [full_name |-> name, email |-> email, calls |-> <<>>]
    ELSE IF git_name # "" /\ git_email # ""
    THEN [full_name |-> IF Truthy(name) THEN name ELSE git_name, email |-> git_email,
          calls |-> <<"call:extract_name_email">>]
    ELSE [full_name |-> AskedPair.full_name, email |-> AskedPair.email,
          calls |-> <<"call:extract_name_email", "call:request_name_email">>]

\* if not (name and email): name, email = extract_name_email()
\*     if not (name and email): name, email = request_name_email()
Identity(name, email, git_name, git_email) ==
    IF Truthy(name) /\ Truthy(email)
    THEN [full_name |-> name, email |-> email, calls |-> <<>>]
    ELSE IF git_name # "" /\ git_email # ""
    THEN [full_name |-> git_name, email |-> git_email,
          calls |-> <<"call:extract_name_email">>]
    ELSE [full_name |-> AskedPair.full_name, email |-> AskedPair.email,
          calls |-> <<"call:extract_name_email", "call:request_name_email">>]

\* create_project_from_template(project_name, description, ..., license_year,
\* name, email) of local_repo.py called on its own; ret.extra_context is the
\* context cruft.create is called with, cruft.create returns or raises
call_create_project_from_template ==
    /\ cmd = "template" /\ pc = "f_call"
    /\ LET who == Identity(args.name, args.email, args.git_name, args.git_email)
           template_info ==
               [project_name |-> args.project_name,
                description |-> args.description,
                full_name |-> who.full_name,
                email |-> who.email,
                license_year |-> IF Truthy(args.license_year)
                                 THEN args.license_year ELSE CurrentYear]
       IN /\ Log(who.calls \o <<"call:cruft.create">>)
          /\ \/ /\ ret' = [returned |-> TRUE, value |-> "project_dir",
                           extra_context |-> template_info]
                /\ Goto("done")
             \/ /\ ret' = [returned |-> FALSE, extra_context |-> template_info]
                /\ Raise("Exception", "CruftError")
    /\ UNCHANGED <<runs, disk, args, cmd, inp, projDir, source, kernel, exe, atEntry>>

\* settings.STAT_TEMPLATE_REPO_URL
STAT_TEMPLATE_REPO_URL == "https://github.com/statisticsnorway/ssb-project-template-stat"

\* tempfile.TemporaryDirectory() of reset_project_git_configuration
ThrowawayDir == "/tmp/tmp_reset"

\* The directory cruft.create materializes the template in: the call passes no
\* output_dir (working_directory and override_dir only make up the returned
\* path), so it is cruft's default, the current directory of the process.
OutputDir == "."

\* for file in files: shutil.copy(tempdir / project_name / file, project_directory / file):
\* the project files after the loop, and whether it raised.  from_dir is where
\* the template was materialized ("" when cruft.create raised), failing the file
\* whose copy fails ("" for none).
CopyFiles(project, template, from_dir, failing) ==
    IF from_dir # ThrowawayDir \/ failing = file_paths[1]
    THEN [project |-> project, raised |-> TRUE, copies |-> <<>>]
    ELSE IF failing = file_paths[2]
    THEN [project |-> [project EXCEPT !.gitattributes = template.gitattributes],
          raised |-> TRUE, copies |-> <<"copy:" \o file_paths[1]>>]
    ELSE [project |-> [project EXCEPT !.gitattributes = template.gitattributes,
                                      !.gitignore = template.gitignore],
          raised |-> FALSE,
          copies |-> <<"copy:" \o file_paths[1], "copy:" \o file_paths[2]>>]

\* reset_project_git_configuration(project_name, template_repo_url, checkout,
\* project_directory) called on its own: create_project_from_template with
\* name=None, email=None (no_input is true for the standard template only),
\* the two copies, the except clause and the final print; the with statement
\* removes the temporary directory
call_reset_project_git_configuration ==
    /\ cmd = "reset" /\ pc = "f_call"
    /\ \E cruft_raises \in BOOLEAN, failing \in {"", file_paths[1], file_paths[2]} :
         LET who == Identity("None", "None", args.git_name, args.git_email)
             no_input == args.template_repo_url = STAT_TEMPLATE_REPO_URL
             from_dir == IF cruft_raises THEN "" ELSE OutputDir
             copy == CopyFiles(disk.project, args.template, from_dir, failing)
         IN /\ disk' = [disk EXCEPT
                           !.generated = IF cruft_raises THEN {} ELSE {OutputDir},
                           !.project = copy.project]
            /\ Log(<<"reset:project", "mkdtemp">> \o who.calls
                   \o (IF no_input THEN <<>> ELSE <<"prompt:cookiecutter">>)
                   \o <<"call:cruft.create">> \o copy.copies \o <<"cleanup:tempdir">>
                   \o Tail(reset_project_git_configuration(~copy.raised)))
    /\ ret' = Returned("None")
    /\ Goto("done")
    /\ UNCHANGED <<runs, args, cmd, inp, projDir, source, kernel, exe, atEntry>>

\* ------------------------------------------------------------ initial states

\* All sequences over S of at most n elements.
RECURSIVE SeqsUpTo(_, _)
SeqsUpTo(S, n) ==
    IF n = 0 THEN {<<>>}
    ELSE LET shorter == SeqsUpTo(S, n - 1)
         IN shorter \cup {Append(q, e) : q \in {r \in shorter : Len(r) = n - 1}, e \in S}

\* the registrations and lockfiles a project directory can hold
Sources ==
    {[registered |-> r, url |-> u, lockExists |-> l, lockText |-> t] :
        r \in BOOLEAN, u \in IndexUrls, l \in BOOLEAN, t \in TextsUpTo(MaxLockLen)}

SourceStates == {s \in Sources : (~s.registered => s.url = None) /\ (~s.lockExists => s.lockText = None)}

NoSource == [registered |-> FALSE, url |-> None, lockExists |-> FALSE, lockText |-> None]

\* the descriptors a kernel.json can hold
Descriptors ==
    {[kind |-> k, argv |-> None] : k \in {"absent", "garbage", "noargv"}}
    \cup {[kind |-> "ok", argv |-> a] :
            a \in SeqsUpTo(ArgvEntries, MaxArgvLen) \cup {<<VenvPython>> \o LauncherArgs, PatchedArgv}}

\* the states the kernel registry and the resource directory can be in
KernelStates ==
    {[registered |-> r, resDir |-> d, desc |-> j, wrapper |-> NoScript, mode |-> "none"] :
        r \in BOOLEAN, d \in BOOLEAN, j \in Descriptors}
    \cup {[registered |-> r, resDir |-> d, desc |-> j, wrapper |-> StartScriptContent(VenvPython), mode |-> m] :
        r \in BOOLEAN, d \in BOOLEAN, j \in Descriptors, m \in {"0644", "0555"}}

\* no kernel of the project's name
NoKernel ==
    [registered |-> FALSE, resDir |-> FALSE, desc |-> [kind |-> "absent", argv |-> None],
     wrapper |-> NoScript, mode |-> "none"]

\* the kernel an earlier build of a project of this name left
PatchedKernel ==
    [registered |-> TRUE, resDir |-> TRUE, desc |-> [kind |-> "ok", argv |-> PatchedArgv],
     wrapper |-> StartScriptContent(VenvPython), mode |-> "0555"]

DefaultInput ==
    [verify_config |-> TRUE, no_kernel |-> FALSE, add_github |-> FALSE,
     image_spec |-> <<>>, pip_index_url |-> None, locate |-> "found",
     memory_full |-> FALSE, name_valid |-> TRUE, has_token |-> TRUE, repo_exists |-> FALSE]

InitCommon ==
    /\ exe = None
    /\ atEntry = [kernel |-> kernel, source |-> source]
    /\ events = <<>>
    /\ raised = NoRaise
    /\ exitStatus = "running"

InitBuild ==
    /\ args = NoCall /\ ret = NoReturn /\ disk = NoDisk /\ runs = <<>>
    /\ cmd = "build" /\ pc = "b_locate"
    /\ \E v, k \in BOOLEAN, i \in ImageSpecs, u \in IndexUrls, l \in {"found", "none", "raises"} :
         inp = [DefaultInput EXCEPT !.verify_config = v, !.no_kernel = k,
                                    !.image_spec = i, !.pip_index_url = u, !.locate = l]
    /\ projDir = "dir"
    /\ source \in SourceStates
    /\ kernel \in {NoKernel, PatchedKernel}

InitSource ==
    /\ args = NoCall /\ ret = NoReturn /\ disk = NoDisk /\ runs = <<>>
    /\ cmd = "source" /\ pc = "s_check"
    /\ \E i \in ImageSpecs, u \in IndexUrls :
         inp = [DefaultInput EXCEPT !.image_spec = i, !.pip_index_url = u]
    /\ projDir = "dir"
    /\ source \in SourceStates
    /\ kernel = NoKernel

InitAttach ==
    /\ args = NoCall /\ ret = NoReturn /\ disk = NoDisk /\ runs = <<>>
    /\ cmd = "attach" /\ pc = "a_kernel"
    /\ inp = DefaultInput
    /\ projDir = "dir"
    /\ source = NoSource
    /\ kernel \in KernelStates

InitCreate ==
    /\ args = NoCall /\ ret = NoReturn /\ disk = NoDisk /\ runs = <<>>
    /\ cmd = "create" /\ pc = "c_start"
    /\ \E v, g, m, n, t, r \in BOOLEAN, i \in ImageSpecs, u \in IndexUrls :
         inp = [DefaultInput EXCEPT !.verify_config = v, !.add_github = g,
                                    !.memory_full = m, !.name_valid = n,
                                    !.has_token = t, !.repo_exists = r,
                                    !.image_spec = i, !.pip_index_url = u]
    /\ projDir \in {"absent", "dir", "file"}
    /\ source = NoSource
    /\ kernel \in {NoKernel, PatchedKernel}

InitLegacy ==
    /\ args = NoCall /\ ret = NoReturn /\ disk = NoDisk /\ runs = <<>>
    /\ cmd = "legacy" /\ pc = "l_start"
    /\ \E i \in ImageSpecs, u \in IndexUrls :
         inp = [DefaultInput EXCEPT !.image_spec = i, !.pip_index_url = u]
    /\ projDir = "dir"
    /\ source \in SourceStates
    /\ kernel = NoKernel

InitLockCheck ==
    /\ cmd = "lockcheck" /\ pc = "f_call"
    /\ \E u \in IndexUrls : args = [function |-> "should_update_lock_file", source_url |-> u]
    /\ ret = NoReturn /\ disk = NoDisk /\ runs = <<>>
    /\ inp = DefaultInput
    /\ projDir = "dir"
    /\ source \in SourceStates
    /\ kernel = NoKernel

\* the characters of the .gitattributes / .gitignore texts
FileChars == {"a", "b", " ", "\n"}

\* the states of the file that is not varied: local equal to the template's,
\* local without the template's line, no local file
OtherFiles ==
    {[exists |-> TRUE, local |-> <<"a">>, remote |-> <<"a">>],
     [exists |-> TRUE, local |-> <<"b">>, remote |-> <<"a">>],
     [exists |-> FALSE, local |-> <<>>, remote |-> <<"a">>]}

InitVerify ==
    /\ cmd = "verify" /\ pc = "f_call"
    /\ \E e \in BOOLEAN, l \in SeqsUpTo(FileChars, MaxLocalLen),
          r \in SeqsUpTo(FileChars, MaxRemoteLen), o \in OtherFiles, first \in BOOLEAN :
         LET f == [exists |-> e, local |-> IF e THEN l ELSE <<>>, remote |-> r]
         IN args = [function |-> "verify_local_config",
                    files |-> IF first THEN <<f, o>> ELSE <<o, f>>]
    /\ ret = NoReturn /\ disk = NoDisk /\ runs = <<>>
    /\ inp = DefaultInput
    /\ projDir = "dir"
    /\ source = NoSource
    /\ kernel = NoKernel

\* the directories a start path can be
Directories == [cruft : ManifestStates, pyproject : ManifestStates, git : BOOLEAN]

\* the directories above the start path: without markers, with .git only, with
\* a readable .cruft.json, with a malformed pyproject.toml, with a malformed
\* .cruft.json and a readable pyproject.toml
AncestorDirectories ==
    {[cruft |-> "absent", pyproject |-> "absent", git |-> FALSE],
     [cruft |-> "absent", pyproject |-> "absent", git |-> TRUE],
     [cruft |-> "name", pyproject |-> "absent", git |-> FALSE],
     [cruft |-> "absent", pyproject |-> "malformed", git |-> FALSE],
     [cruft |-> "malformed", pyproject |-> "name", git |-> TRUE]}

InitLocate ==
    /\ cmd = "locate" /\ pc = "f_call"
    /\ \E o \in {"missing", "dir", "file"}, d \in Directories,
          above \in SeqsUpTo(AncestorDirectories, MaxDepth - 1) :
         /\ o = "missing" => (above = <<>> /\ ~HasMarker(d))
         /\ o = "file" => d \in AncestorDirectories
         /\ args = [function |-> "get_project_name_and_root_path", origin |-> o,
                    paths |-> <<d>> \o above]
    /\ ret = NoReturn /\ disk = NoDisk /\ runs = <<>>
    /\ inp = DefaultInput
    /\ projDir = "dir"
    /\ source = NoSource
    /\ kernel = NoKernel

InitExec ==
    /\ cmd = "exec" /\ pc = "f_call"
    /\ \E rc \in {"cannot start", "0", "1", "2"}, sd \in {"None", "", "it worked"},
          fd \in {"None", "", "it failed"}, c \in {"poetry install", "poetry lock --no-update"} :
         args = [function |-> "execute_command", command |-> c,
                 command_shortname |-> "label", success_desc |-> sd,
                 failure_desc |-> fd, returncode |-> rc]
    /\ ret = NoReturn /\ disk = NoDisk /\ runs = <<>>
    /\ inp = DefaultInput
    /\ projDir = "dir"
    /\ source = NoSource
    /\ kernel = NoKernel

InitNoKernel ==
    /\ cmd = "nokernel" /\ pc = "f_call"
    /\ \E flag \in BOOLEAN, env \in {Undefined, "True", "False", "", "true", "0", "None"} :
         args = [function |-> "handle_no_kernel_argument", no_kernel |-> flag, NO_KERNEL |-> env]
    /\ ret = NoReturn /\ disk = NoDisk /\ runs = <<>>
    /\ inp = DefaultInput
    /\ projDir = "dir"
    /\ source = NoSource
    /\ kernel = NoKernel

InitTemplate ==
    /\ cmd = "template" /\ pc = "f_call"
    /\ \E n \in {"None", "", "Caller Name"}, e \in {"None", "", "caller@ssb.no"},
          gn \in {"", "Git Name"}, ge \in {"", "git@ssb.no"},
          y \in {"None", "", "1999"}, d \in {"", "a description"} :
         args = [function |-> "create_project_from_template",
                 project_name |-> "my-project", description |-> d, license_year |-> y,
                 name |-> n, email |-> e, git_name |-> gn, git_email |-> ge]
    /\ ret = NoReturn /\ disk = NoDisk /\ runs = <<>>
    /\ inp = DefaultInput
    /\ projDir = "dir"
    /\ source = NoSource
    /\ kernel = NoKernel

\* the project files a repair starts from and the template's copies of the two
\* tracked files
InitReset ==
    /\ cmd = "reset" /\ pc = "f_call"
    /\ \E gn \in {"", "Git Name"}, ge \in {"", "git@ssb.no"},
          u \in {STAT_TEMPLATE_REPO_URL, "https://github.com/statisticsnorway/ssb-minimal-template"},
          ta, ti \in {<<"a">>, <<"a", "\n", "b">>} :
         args = [function |-> "reset_project_git_configuration",
                 git_name |-> gn, git_email |-> ge, template_repo_url |-> u,
                 template |-> [gitattributes |-> ta, gitignore |-> ti]]
    /\ \E la, li \in {<<"a">>, <<"b">>} :
         disk = [temp_dir |-> NoTempDir, generated |-> {},
                 project |-> [gitattributes |-> la, gitignore |-> li, other |-> <<"b">>]]
    /\ ret = NoReturn /\ runs = <<>>
    /\ inp = DefaultInput
    /\ projDir = "dir"
    /\ source = NoSource
    /\ kernel = NoKernel

Init ==
    /\ \/ InitBuild
       \/ InitSource
       \/ InitAttach
       \/ InitCreate
       \/ InitLegacy
       \/ InitLockCheck
       \/ InitVerify
       \/ InitLocate
       \/ InitExec
       \/ InitNoKernel
       \/ InitTemplate
       \/ InitReset
    /\ InitCommon

Next ==
    \/ create_project
    \/ build_project
    \/ PackageSourceManager
    \/ ipykernel_attach_bashrc
    \/ legacy_build
    \/ call_should_update_lock_file
    \/ verify_local_config
    \/ get_project_name_and_root_path
    \/ execute_command
    \/ handle_no_kernel_argument
    \/ call_create_project_from_template
    \/ call_reset_project_git_configuration

Spec == Init /\ [][Next]_vars

\* ------------------------------------------------------------------ claims

IsPrefix(a, b) == Len(a) <= Len(b) /\ SubSeq(b, 1, Len(a)) = a

Ended == pc \in {"done", "terminated"}

\* ---- C1

StepOrder ==
    <<"step:locate", "step:git_config", "step:source", "step:install",
      "step:kernel_install", "step:kernel_patch">>

IsStep(e) == \E i \in 1..Len(StepOrder) : StepOrder[i] = e

\* the steps of build_project executed so far, in order
Steps == SelectSeq(events, IsStep)

ShouldRun(step) ==
    CASE step = "step:git_config" -> inp.verify_config
      [] step \in {"step:kernel_install", "step:kernel_patch"} -> ~inp.no_kernel
      [] OTHER -> TRUE

\* the steps a run of build_project with these arguments executes when none fails
ExpectedSteps == SelectSeq(StepOrder, ShouldRun)

C1_Order ==
    cmd \in {"build", "create"} =>
        /\ IsPrefix(Steps, ExpectedSteps)
        /\ (cmd = "build" /\ pc = "done") => Steps = ExpectedSteps
        /\ inp.no_kernel =>
              /\ ~Did("step:kernel_install") /\ ~Did("step:kernel_patch")
              /\ Count("step:install") <= 1

\* C1: build_project executes its steps in the fixed order locate, git-config
\* check (only with verify_config), package source, dependency install, kernel
\* install and kernel patch (both only without no_kernel): at every moment the
\* steps executed are an initial part of that list, a build that returns has
\* executed all of it, each step once, and after a step has raised or exited no
\* further step is executed.
C1_BuildStepOrder ==
    /\ [](C1_Order)
    /\ [][raised # NoRaise => Steps' = Steps]_vars

C1_Witness ==
    /\ cmd = "build" /\ pc = "done"
    /\ inp.verify_config /\ ~inp.no_kernel
    /\ Steps = StepOrder

\* ---- C2, C3, C4

\* a sub-step of the try block raised and a handler of create_project caught it
Caught ==
    \/ Did("caught:Exception")
    \/ Did("caught:KeyboardInterrupt")
    \/ Did("caught:SystemExit:0") \/ Did("caught:SystemExit:1") \/ Did("caught:SystemExit:None")

\* a sub-step failed: it raised an exception or exited with a non-zero status
SubStepFailed ==
    \/ Did("caught:Exception")
    \/ Did("caught:KeyboardInterrupt")
    \/ Did("caught:SystemExit:1")

C2_LogBeforeDelete ==
    Did("caught:Exception") =>
        /\ Count("log:create") = 1
        /\ AllBefore("log:create", "rmtree")

\* C2 as stated: after a sub-step of create_project raised, the project
\* directory no longer exists as a directory, and for an ordinary exception the
\* error log was written before the deletion.
C2_Original ==
    (cmd = "create" /\ Ended /\ Caught) =>
        /\ projDir # "dir"
        /\ C2_LogBeforeDelete

\* C2 as amended: after a sub-step of create_project raised, rmtree was called
\* at most once, and the project directory still exists as a directory only if
\* rmtree was called on it and failed (logged as delete_dir, or raising out of
\* create_project); for an ordinary exception the error log was written once,
\* before rmtree.
C2_DeleteAttempted ==
    (cmd = "create" /\ Ended /\ Caught) =>
        /\ Count("rmtree") <= 1
        /\ projDir = "dir" =>
              /\ Count("rmtree") = 1
              /\ Did("log:delete_dir") \/ pc = "terminated"
        /\ C2_LogBeforeDelete

C2_Witness ==
    /\ cmd = "create" /\ pc = "done"
    /\ Did("caught:Exception") /\ Did("sub:git_init")
    /\ Did("rmtree") /\ projDir = "absent"

\* C3: create_project calls rmtree only after a sub-step failed (raised an
\* exception or exited with a non-zero status); when it returns without any
\* sub-step having failed, rmtree was not called and the project directory exists.
C3_DeleteOnlyOnFailure ==
    cmd = "create" =>
        /\ Did("rmtree") => SubStepFailed
        /\ (pc = "done" /\ ~SubStepFailed) => (~Did("rmtree") /\ projDir = "dir")

C3_Witness ==
    /\ cmd = "create" /\ pc = "done"
    /\ ~Caught /\ Did("step:kernel_patch") /\ Did("print:all_done")
    /\ projDir = "dir"

\* C4: when a sub-step of create_project failed, the create command ends with
\* exit status 1, also when the deletion of the directory fails.
C4_FailureNotMasked ==
    (cmd = "create" /\ Ended /\ SubStepFailed) => exitStatus = "1"

\* ---- C5, C6, C7

\* ipykernel_attach_bashrc wrote a file or changed a permission
AttachWrote ==
    Did("write:kernel.json") \/ Did("write:python.sh") \/ Did("chmod:python.sh")

LastPart(path) == path[Len(path)]

\* arg is the path of an interpreter: ".../python", ".../python3" or ".../python.sh"
IsInterpreterPath(arg) ==
    Len(arg) >= 2 /\ LastPart(arg) \in {"python", "python3", "python.sh"}

\* the kernel is registered with its files in place, and the first interpreter
\* path of its descriptor's launch arguments is a wrapper script (.../python.sh)
InterpreterEntryIsWrapper(k) ==
    /\ k.registered /\ k.resDir /\ k.desc.kind = "ok"
    /\ \E i \in 1..Len(k.desc.argv) :
          /\ IsInterpreterPath(k.desc.argv[i]) /\ LastPart(k.desc.argv[i]) = "python.sh"
          /\ \A j \in 1..(i - 1) : ~IsInterpreterPath(k.desc.argv[j])

\* C5: run on a kernel whose descriptor's interpreter entry is a wrapper script
\* (a path ending in /python.sh), ipykernel_attach_bashrc writes neither the
\* descriptor nor the wrapper script, changes no permission, and ends with
\* sys.exit(0) after reporting that .bashrc is already mounted.
C5_PatchIdempotent ==
    (cmd = "attach" /\ InterpreterEntryIsWrapper(atEntry.kernel)) =>
        /\ kernel = atEntry.kernel
        /\ ~AttachWrote
        /\ Ended =>
              /\ raised = [kind |-> "SystemExit", code |-> "0"]
              /\ exitStatus = "0"
              /\ Did("print:already_mounted")

C5_Witness ==
    /\ cmd = "attach" /\ pc = "terminated"
    /\ atEntry.kernel.desc.argv = PatchedArgv
    /\ atEntry.kernel.wrapper.exists
    /\ Did("print:already_mounted") /\ exitStatus = "0"

Checks ==
    <<"check:kernel", "check:resource_dir", "check:descriptor", "check:argv">>

IsCheck(e) == \E i \in 1..Len(Checks) : Checks[i] = e
IsPrint(e) ==
    e \in {"print:kernel_not_found", "print:path_does_not_exist", "print:file_does_not_exist",
           "print:cannot_find_python", "print:already_mounted"}

\* the number of the first precondition the kernel state violates, 0 when none:
\* 1 registered, 2 resource directory, 3 descriptor file, 4 launch arguments
\* parse and hold an interpreter path
FirstViolated(k) ==
    CASE ~k.registered -> 1
      [] ~k.resDir -> 2
      [] k.desc.kind = "absent" -> 3
      [] k.desc.kind \in {"garbage", "noargv"} -> 4
      [] \A i \in 1..Len(k.desc.argv) : ~IsInterpreterPath(k.desc.argv[i]) -> 4
      [] OTHER -> 0

\* the messages of the steps other than step n
MessagesOfOtherSteps(n) ==
    {"print:already_mounted"}
    \cup (IF n # 1 THEN {"print:kernel_not_found"} ELSE {})
    \cup (IF n # 2 THEN {"print:path_does_not_exist"} ELSE {})
    \cup (IF n # 3 THEN {"print:file_does_not_exist"} ELSE {})
    \cup (IF n # 4 THEN {"print:cannot_find_python"} ELSE {})

\* C6: ipykernel_attach_bashrc checks (1) kernel registered, (2) resource
\* directory exists, (3) descriptor exists, (4) launch arguments parse and hold
\* an interpreter path, in this order; the first violated one, an unparseable
\* descriptor or a missing argument list included, ends the run with
\* sys.exit(1) and one message that is not the message of another step, and no
\* later check is evaluated.
C6_OrderedFatalChecks ==
    (cmd = "attach" /\ Ended /\ FirstViolated(atEntry.kernel) # 0) =>
        /\ SelectSeq(events, IsCheck) = SubSeq(Checks, 1, FirstViolated(atEntry.kernel))
        /\ exitStatus = "1"
        /\ Len(SelectSeq(events, IsPrint)) = 1
        /\ SelectSeq(events, IsPrint)[1] \notin MessagesOfOtherSteps(FirstViolated(atEntry.kernel))

\* the run printed the message of a failed precondition
PreconditionFailed ==
    \/ Did("print:kernel_not_found")
    \/ Did("print:path_does_not_exist")
    \/ Did("print:file_does_not_exist")
    \/ Did("print:cannot_find_python")

\* C7: a run of ipykernel_attach_bashrc that ends in a precondition failure
\* (missing kernel, missing resource directory, missing descriptor, no
\* interpreter entry) leaves the descriptor, the wrapper script and its
\* permissions as they were and has written nothing.
C7_ValidateBeforeMutate ==
    PreconditionFailed =>
        /\ kernel = atEntry.kernel
        /\ ~AttachWrote

C7_Witness ==
    /\ cmd = "attach" /\ pc = "terminated"
    /\ Did("print:cannot_find_python")
    /\ kernel.desc.kind = "ok" /\ kernel.wrapper.exists

\* ---- C8, C9, C10

OnPrem == running_onprem(inp.image_spec)

IsSourceCall(e) == e \in {"call:includes", "call:remove", "call:add", "run:update_lock"}

\* the registered-check, remove, add and lock refresh of this run, in order
SourceCalls == SelectSeq(events, IsSourceCall)

\* the package source manager has returned
SourceManagerReturned ==
    \/ cmd = "source" /\ pc = "done"
    \/ cmd \in {"build", "create"} /\ pc = "b_install"

C8_Returned ==
    SourceManagerReturned =>
        CASE OnPrem /\ atEntry.source.registered ->
                 SourceCalls \in {<<"call:includes", "call:remove", "call:add">>,
                                  <<"call:includes", "call:remove", "call:add", "run:update_lock">>}
          [] OnPrem /\ ~atEntry.source.registered ->
                 SourceCalls \in {<<"call:includes", "call:add">>,
                                  <<"call:includes", "call:add", "run:update_lock">>}
          [] ~OnPrem /\ atEntry.source.registered ->
                 SourceCalls = <<"call:includes", "call:remove", "run:update_lock">>
          [] OTHER ->
                 SourceCalls = <<"call:includes">>

C8_Always ==
    cmd \in {"source", "build", "create"} =>
        /\ Count("call:includes") <= 1 /\ Count("call:add") <= 1 /\ Count("call:remove") <= 1
        /\ Did("call:add") => OnPrem
        /\ Did("call:remove") => atEntry.source.registered

\* C8: when the package source manager returns it has made exactly these
\* calls, in this order: on-prem and registered: registered-check, remove
\* (without a lock refresh), add; on-prem and not registered: registered-check,
\* add; not on-prem and registered: registered-check, remove, lock refresh; not
\* on-prem and not registered: the registered-check alone (an add may be followed
\* by its own lock refresh).  No run makes a call twice, adds when not on-prem
\* or removes a source that was not registered.
C8_FourCases == C8_Returned /\ C8_Always

C8_Witness ==
    /\ cmd = "source" /\ pc = "done"
    /\ OnPrem /\ atEntry.source.registered
    /\ SourceCalls = <<"call:includes", "call:remove", "call:add", "run:update_lock">>

\* the row of the source toggle matrix for (on-prem, already registered)
ToggleMatrix(onprem, registered) ==
    CASE ~onprem /\ ~registered -> <<1, 0, 0>>
      [] onprem /\ ~registered -> <<0, 1, 0>>
      [] onprem /\ registered -> <<0, 1, 0>>
      [] OTHER -> <<1, 0, 1>>

\* the first generation build is past its source calls
LegacySourceDone ==
    cmd = "legacy" /\ (pc \in {"l_install", "done"} \/ Did("call:poetry_install"))

\* C9 as stated: the numbers of add, remove and includes-check calls of one
\* build, in this order, are the row of the matrix.
C9_Original ==
    LegacySourceDone =>
        <<Count("call:add"), Count("call:remove"), Count("call:includes")>>
            = ToggleMatrix(OnPrem, atEntry.source.registered)

\* C9 as amended: the numbers of includes-check, add and remove calls of one
\* build, in this order, are the row of the matrix.
C9_ToggleMatrix ==
    LegacySourceDone =>
        <<Count("call:includes"), Count("call:add"), Count("call:remove")>>
            = ToggleMatrix(OnPrem, atEntry.source.registered)

C9_Witness ==
    /\ cmd = "legacy" /\ pc = "done"
    /\ ~OnPrem /\ atEntry.source.registered
    /\ Count("call:includes") = 1 /\ Count("call:add") = 0 /\ Count("call:remove") = 1

\* poetry.lock, when there is one, names the URL of the registered source, and
\* names no index URL when no source is registered
LockConsistent ==
    source.lockExists =>
        IF source.registered
        THEN Contains(source.lockText, source.url)
        ELSE \A u \in IndexUrls : u # None => ~Contains(source.lockText, u)

\* C10: when the package source manager has returned, the source is registered
\* iff the run is on-prem, with PIP_INDEX_URL as its URL, poetry.lock is
\* consistent with the registration, and after an add should_update_lock_file
\* is false for the added URL.
C10_SourceMatchesEnvironment ==
    SourceManagerReturned =>
        /\ source.registered <=> OnPrem
        /\ source.registered => source.url = inp.pip_index_url
        /\ LockConsistent
        /\ Did("call:add") => ~should_update_lock_file(inp.pip_index_url, source)

\* ---- C11

\* text occurs in the lockfile text at some offset
OccursIn(text, lockText) ==
    \E k \in 0..Len(lockText) :
        \A j \in 1..Len(text) : k + j <= Len(lockText) /\ lockText[k + j] = text[j]

\* C11: should_update_lock_file(url, dir) returns false if dir/poetry.lock
\* exists and its text contains url as a literal substring, false if
\* dir/poetry.lock does not exist, true if it exists and does not contain url;
\* the lockfile is left as it was.
C11_LockRefreshGating ==
    (cmd = "lockcheck" /\ pc = "done") =>
        /\ ret.returned
        /\ (source.lockExists /\ OccursIn(args.source_url, source.lockText)) => ret.value = FALSE
        /\ ~source.lockExists => ret.value = FALSE
        /\ (source.lockExists /\ ~OccursIn(args.source_url, source.lockText)) => ret.value = TRUE
        /\ source = atEntry.source

C11_Witness ==
    /\ cmd = "lockcheck" /\ pc = "done"
    /\ source.lockExists /\ source.lockText = <<"x", "n">> /\ args.source_url = <<"n", "x">>
    /\ ret.value = TRUE

\* ---- C12

\* the lines of a text: the pieces between its newlines; the last line may end
\* in a newline, and an empty text has no line
Lines(text) ==
    LET pieces == split(text)
        n == IF pieces[Len(pieces)] = <<>> THEN Len(pieces) - 1 ELSE Len(pieces)
    IN {pieces[i] : i \in 1..n}

\* C12: verify_local_config returns true iff for both tracked files
\* (.gitattributes and .gitignore) the local file's set of lines is a superset
\* of the template copy's set of lines; and a true result stays true when a
\* line is added to a local file.
C12_SupersetInvariant ==
    (cmd = "verify" /\ pc = "done") =>
        /\ ret.returned
        /\ ret.value = \A i \in 1..Len(args.files) :
                           /\ args.files[i].exists
                           /\ Lines(args.files[i].remote) \subseteq Lines(args.files[i].local)
        /\ ret.value =>
               \A i \in 1..Len(args.files), line \in {<<"a">>, <<"b">>} :
                   VerifyFiles([args.files EXCEPT ![i].local = @ \o <<"\n">> \o line])

\* ---- C13, C14, C15

\* the candidates that directly contain .cruft.json, pyproject.toml or .git
Marked == {i \in 1..Len(args.paths) : HasMarker(args.paths[i])}

\* the candidate nearest to the start path among them
Nearest == CHOOSE i \in Marked : \A j \in Marked : i <= j

\* the locator has ended, by a return or by an exception
Located == cmd = "locate" /\ pc \in {"done", "terminated"}

\* C13: at the directory chosen as project root, the name returned is the one
\* recorded in .cruft.json when it can be read; otherwise the one declared in
\* pyproject.toml when it can be read; otherwise the directory's base name.
C13_NamePriority ==
    (Located /\ args.origin = "dir" /\ Marked # {}) =>
        /\ ret.returned
        /\ ret.value.name =
              IF args.paths[Nearest].cruft = "name" THEN "cruft-name"
              ELSE IF args.paths[Nearest].pyproject = "name" THEN "pyproject-name"
              ELSE BaseName(Nearest, Len(args.paths))

\* C14: for an existing start path the root returned is the nearest candidate
\* that directly contains a marker, also when no name can be read there; the
\* result is (None, None) iff the start path does not exist or no candidate
\* contains a marker.
C14_NearestRoot ==
    Located =>
        /\ (args.origin # "missing" /\ Marked # {}) =>
               (ret.returned /\ ret.value.root = Nearest)
        /\ (args.origin = "missing" \/ Marked = {}) =>
               (ret.returned /\ ret.value = NoneNone)

\* C15: a malformed .cruft.json or pyproject.toml, or a missing key in either,
\* never propagates out of get_project_name_and_root_path as an exception: the
\* call returns a (name, root) pair.
C15_ParseErrorsFallThrough ==
    (Located /\ args.origin = "dir"
        /\ \A i \in 1..Len(args.paths) :
              /\ args.paths[i].cruft # "badtype"
              /\ args.paths[i].pyproject # "badtype") =>
        /\ raised = NoRaise
        /\ ret.returned

\* ---- C16

IsPrinted(e) == Len(e) >= 6 /\ SubSeq(e, 1, 6) = "print:"
IsLogFile(e) == Len(e) >= 4 /\ SubSeq(e, 1, 4) = "log:"
IsRun(e) == Len(e) >= 4 /\ SubSeq(e, 1, 4) = "run:"

\* C16: execute_command runs the command exactly once.  On a non-zero exit
\* status it prints the failure message (the generic "Error while running:
\* <command>" when none is given), writes the diagnostic log named after the
\* label and ends the process with exit status 1 without returning; on exit
\* status 0 it prints the success message when one is given, writes no
\* diagnostic log and returns the result.
C16_ExecuteCommand ==
    cmd = "exec" =>
        /\ Len(SelectSeq(events, IsRun)) <= 1
        /\ (Ended /\ args.returncode \in {"1", "2"}) =>
              /\ SelectSeq(events, IsRun) = <<"run:" \o args.command>>
              /\ SelectSeq(events, IsPrinted) =
                    << IF args.failure_desc \in {"None", ""}
                       THEN "print:Error while running: " \o args.command
                       ELSE "print:" \o args.failure_desc >>
              /\ SelectSeq(events, IsLogFile) = <<"log:" \o args.command_shortname>>
              /\ pc = "terminated" /\ exitStatus = "1"
              /\ ~ret.returned
        /\ (Ended /\ args.returncode = "0") =>
              /\ SelectSeq(events, IsRun) = <<"run:" \o args.command>>
              /\ SelectSeq(events, IsPrinted) =
                    IF args.success_desc \in {"None", ""} THEN <<>>
                    ELSE <<"print:" \o args.success_desc>>
              /\ SelectSeq(events, IsLogFile) = <<>>
              /\ pc = "done" /\ ret = Returned([returncode |-> "0"])

C16_Witness ==
    /\ cmd = "exec" /\ pc = "terminated"
    /\ args.returncode = "2" /\ args.failure_desc = "None"
    /\ Did("print:Error while running: poetry install") /\ Did("log:label")

\* ---- C17

IsPrompt(e) == Len(e) >= 7 /\ SubSeq(e, 1, 7) = "prompt:"

\* the text of a prompt names the file
Names(e, file) ==
    \E i \in 0..Len(e) : i + Len(file) <= Len(e) /\ SubSeq(e, i + 1, i + Len(file)) = file

\* C17: once the build has validated the git configuration, the confirmation
\* prompt was shown iff the global config or the project files are
\* non-compliant; the global reset was invoked iff the user confirmed and the
\* global config is non-compliant, the project-file reset iff the user
\* confirmed and the project files are non-compliant; the prompt names exactly
\* the non-compliant files.  When the user declined, nothing was reset and the
\* build goes on with the package-source step.
C17_ConfirmationGatedRepair ==
    (Did("valid_global:yes") \/ Did("valid_global:no")) =>
        LET global_bad == Did("valid_global:no")
            project_bad == Did("valid_project:no")
            prompts == SelectSeq(events, IsPrompt)
        IN /\ Len(prompts) = (IF global_bad \/ project_bad THEN 1 ELSE 0)
           /\ Did("reset:global") <=> (Did("answer:yes") /\ global_bad)
           /\ Did("reset:project") <=> (Did("answer:yes") /\ project_bad)
           /\ \A i \in 1..Len(prompts) :
                 /\ Names(prompts[i], ".gitconfig") <=> global_bad
                 /\ Names(prompts[i], ".gitattributes") <=> project_bad
                 /\ Names(prompts[i], ".gitignore") <=> project_bad
           /\ Did("answer:no") => (~Did("reset:global") /\ ~Did("reset:project"))
           /\ (cmd = "build" /\ Did("answer:no") /\ ~Did("step:source")) => pc = "b_source"

C17_Witness ==
    /\ cmd = "build" /\ pc = "done"
    /\ Did("valid_global:no") /\ Did("valid_project:yes") /\ Did("answer:yes")
    /\ Did("reset:global") /\ ~Did("reset:project")

\* ---- C18

\* C18: when the locator finds no project root for the build's start
\* directory, the build prints an explanation and ends with exit status 1
\* before any git-config check, package-source operation, dependency install
\* or kernel operation.
C18_NoProjectRootIsFatal ==
    (cmd = "build" /\ inp.locate = "none" /\ Ended) =>
        /\ Did("print:could_not_find_project_root")
        /\ Steps = <<"step:locate">>
        /\ source = atEntry.source /\ kernel = atEntry.kernel
        /\ exitStatus = "1"

\* ---- C19

\* C19: handle_no_kernel_argument returns True whenever the flag is True; with
\* the flag False it returns True when NO_KERNEL is "True", False when
\* NO_KERNEL is "False", False when NO_KERNEL is undefined, and ends the
\* process with exit status 1 for any other value of NO_KERNEL.
C19_NoKernelArgument ==
    (cmd = "nokernel" /\ Ended) =>
        CASE args.no_kernel -> ret = Returned(TRUE)
          [] ~args.no_kernel /\ args.NO_KERNEL = "True" -> ret = Returned(TRUE)
          [] ~args.no_kernel /\ args.NO_KERNEL = "False" -> ret = Returned(FALSE)
          [] ~args.no_kernel /\ args.NO_KERNEL = Undefined -> ret = Returned(FALSE)
          [] OTHER -> ~ret.returned /\ pc = "terminated" /\ exitStatus = "1"

\* ---- C20

\* the caller supplied a value: not None and not the empty string
Given(value) == value \notin {"None", ""}

\* C20: the context create_project_from_template passes to the template
\* engine has the supplied project_name and description, the supplied
\* license_year or the current year when none is given, and as
\* full_name/email the caller's pair when both are given, otherwise the
\* git-config pair when both are non-empty, otherwise the interactively
\* requested pair; the interactive request is made only in that last case and
\* at most once.
C20_TemplateContext ==
    (cmd = "template" /\ Did("call:cruft.create")) =>
        LET context == ret.extra_context
            caller == Given(args.name) /\ Given(args.email)
            git == ~caller /\ args.git_name # "" /\ args.git_email # ""
        IN /\ context.project_name = args.project_name
           /\ context.description = args.description
           /\ context.license_year =
                 (IF Given(args.license_year) THEN args.license_year ELSE CurrentYear)
           /\ caller => (context.full_name = args.name /\ context.email = args.email)
           /\ git => (context.full_name = args.git_name /\ context.email = args.git_email)
           /\ (~caller /\ ~git) =>
                 (context.full_name = AskedPair.full_name /\ context.email = AskedPair.email)
           /\ Count("call:request_name_email") = (IF ~caller /\ ~git THEN 1 ELSE 0)
           /\ Count("call:cruft.create") = 1

C20_Witness ==
    /\ cmd = "template" /\ pc = "done"
    /\ args.name = "Caller Name" /\ args.email = "None"
    /\ args.git_name = "Git Name" /\ args.git_email = "git@ssb.no"
    /\ ret.extra_context.full_name = "Git Name"
    /\ args.license_year = "1999" /\ ret.extra_context.license_year = "1999"

\* ---- C21

\* C21: whenever the scope of the template clone is left, by a return or by an
\* exception raised while cloning, checking out or comparing, no entry under
\* the clone directory is read-only any more and the clone directory no
\* longer exists.
C21_CloneNeverLeaks ==
    (cmd = "verify" /\ Ended) =>
        /\ disk.temp_dir.readonly = {}
        /\ ~disk.temp_dir.exists

\* ---- C22

\* a build that was run on what an earlier build left has ended
BuiltAgain == cmd = "build" /\ runs # <<>> /\ Ended

\* an external command or a file operation of this build failed:
\* execute_command saw a non-zero exit status, the template could not be
\* cloned, a file could not be written
ExternalCommandFailed == Did("print:failure") \/ raised.kind = "Exception"

\* C22: a build run right after a successful build of the same project, in
\* the same environment and with no external command or file operation
\* failing, completes
\* normally too and leaves the package source, the lockfile and the kernel
\* (registration, descriptor, wrapper script and its mode) exactly as the
\* build before it left them; when the kernel is built, it is registered, its
\* descriptor launches through the wrapper, and the wrapper exists and is
\* executable.
C22_BuildIdempotent ==
    (BuiltAgain /\ ~ExternalCommandFailed) =>
        /\ pc = "done" /\ exitStatus = "0"
        /\ source = runs[Len(runs)].source
        /\ kernel = runs[Len(runs)].kernel
        /\ ~inp.no_kernel =>
              /\ kernel.registered
              /\ kernel.desc.argv = PatchedArgv
              /\ kernel.wrapper.exists /\ kernel.mode = "0555"

C22_Witness ==
    /\ BuiltAgain /\ pc = "done"
    /\ ~inp.no_kernel /\ OnPrem
    /\ Did("call:remove") /\ Did("call:add") /\ Did("write:python.sh")
    /\ runs[1].kernel.desc.argv = PatchedArgv

\* ---- C23

\* the interpreter path the patch step finds in the descriptor it starts from
OriginalInterpreter == _get_python_executable_path(atEntry.kernel.desc.argv)

\* the kernel is registered, its resource directory and descriptor exist, the
\* descriptor names an interpreter, and that is not a wrapper script
PatchPreconditions ==
    /\ atEntry.kernel.registered /\ atEntry.kernel.resDir
    /\ atEntry.kernel.desc.kind = "ok"
    /\ OriginalInterpreter # None
    /\ LastPart(OriginalInterpreter) # "python.sh"

\* C23: under its preconditions and with an unpatched descriptor, and unless a
\* file operation fails, ipykernel_attach_bashrc returns with the descriptor's
\* launch arguments equal to [<resource_dir>/python.sh, -m, ipykernel_launcher,
\* -f, {connection_file}], the wrapper script sourcing $HOME/.bashrc and then
\* exec-ing the interpreter originally found in the descriptor with "$@", and
\* the wrapper's mode r-xr-xr-x; a patch step run next on that kernel prints
\* the already-mounted message, exits with status 0 and changes nothing.
C23_PatchPostcondition ==
    /\ (cmd = "attach" /\ runs = <<>> /\ PatchPreconditions /\ Ended
            /\ raised.kind # "Exception") =>
           /\ pc = "done"
           /\ kernel.desc = [kind |-> "ok",
                             argv |-> <<StartScript, <<"-m">>, <<"ipykernel_launcher">>,
                                        <<"-f">>, <<"{connection_file}">> >>]
           /\ kernel.wrapper.exists
           /\ kernel.wrapper.shebang = "bash"
           /\ kernel.wrapper.sources = "$HOME/.bashrc"
           /\ kernel.wrapper.execs = OriginalInterpreter
           /\ kernel.wrapper.forwards = "$@"
           /\ kernel.mode = "0555"
    /\ (cmd = "attach" /\ runs # <<>> /\ Ended) =>
           /\ Did("print:already_mounted")
           /\ raised = [kind |-> "SystemExit", code |-> "0"]
           /\ kernel = runs[Len(runs)].kernel

C23_Witness ==
    /\ cmd = "attach" /\ runs # <<>> /\ Ended
    /\ runs[1].kernel.wrapper.execs = VenvPython3
    /\ runs[1].kernel.mode = "0555"
    /\ Did("print:already_mounted")

\* ---- C24

\* the lock refreshes ("poetry lock --no-update") this run has started
LockRefreshes == Count("run:update_lock")

\* poetry.lock existed when the package source manager began and did not
\* contain the source URL
StaleLockAtEntry ==
    atEntry.source.lockExists /\ ~OccursIn(inp.pip_index_url, atEntry.source.lockText)

\* C24: no run of the package source manager refreshes the lockfile more than
\* once.  When it returns: on-prem, the lockfile was refreshed (once, after the
\* add) exactly when it existed and did not contain the source URL, and the
\* remove of the already-registered case refreshed nothing; not on-prem with
\* the source registered, it was refreshed exactly once, after the remove; not
\* on-prem with the source not registered, it was not refreshed.
C24_LockChurnBounded ==
    /\ cmd \in {"source", "build", "create"} => LockRefreshes <= 1
    /\ SourceManagerReturned =>
          CASE OnPrem ->
                 /\ LockRefreshes = (IF StaleLockAtEntry THEN 1 ELSE 0)
                 /\ AllBefore("call:add", "run:update_lock")
            [] ~OnPrem /\ atEntry.source.registered ->
                 /\ LockRefreshes = 1
                 /\ Did("call:remove") /\ AllBefore("call:remove", "run:update_lock")
            [] OTHER -> LockRefreshes = 0

C24_Witness ==
    /\ cmd = "source" /\ pc = "done"
    /\ OnPrem /\ atEntry.source.registered /\ StaleLockAtEntry
    /\ SourceCalls = <<"call:includes", "call:remove", "call:add", "run:update_lock">>

\* ---- C25

\* the i-th tracked file was looked for by verify_local_config and is missing
ExaminedAndMissing(i) ==
    /\ cmd = "verify" /\ Ended
    /\ Did("exists:" \o file_paths[i]) /\ ~args.files[i].exists

\* C25: when verify_local_config finds that a tracked local file does not
\* exist, it returns false without comparing that file's lines and without
\* examining the tracked file after it, and the template clone is removed.
C25_MissingFileFailsFast ==
    \A i \in 1..Len(file_paths) :
        ExaminedAndMissing(i) =>
            /\ ret = Returned(FALSE)
            /\ ~Did("compare:" \o file_paths[i])
            /\ \A j \in (i + 1)..Len(file_paths) :
                   ~Did("exists:" \o file_paths[j]) /\ ~Did("compare:" \o file_paths[j])
            /\ ~disk.temp_dir.exists

\* ---- C26

\* the repair has returned
Repaired == cmd = "reset" /\ pc = "done"

\* both files were copied into the project
RepairSucceeded == Did("copy:.gitattributes") /\ Did("copy:.gitignore")

\* C26: the project-file repair materializes the template in its throwaway
\* directory and nowhere else, asks nothing interactively, changes no project
\* file other than .gitattributes and .gitignore, and leaves no throwaway
\* directory; after a repair that copied both files they are the template's
\* copies and the compliance check against that template returns true.
C26_RepairFrame ==
    Repaired =>
        /\ ~Did("call:request_name_email") /\ ~Did("prompt:cookiecutter")
        /\ disk.generated \subseteq {ThrowawayDir}
        /\ disk.project.other = <<"b">>
        /\ ~disk.temp_dir.exists
        /\ RepairSucceeded =>
              /\ disk.project.gitattributes = args.template.gitattributes
              /\ disk.project.gitignore = args.template.gitignore
              /\ VerifyFiles(<<[exists |-> TRUE, local |-> disk.project.gitattributes,
                                remote |-> args.template.gitattributes],
                               [exists |-> TRUE, local |-> disk.project.gitignore,
                                remote |-> args.template.gitignore]>>)

\* ---- C27

\* C27: when a handler of create_project has called delete_folder, rmtree was
\* attempted exactly once if the project path was a directory and not at all
\* otherwise; a failed removal was logged (delete_dir), and delete_folder
\* returned normally: no exception of the deletion left create_project.
C27_DeleteFolderBestEffort ==
    (cmd = "create" /\ Caught /\ Ended) =>
        /\ Count("rmtree") <= 1
        /\ ~Did("rmtree") => projDir # "dir"
        /\ (Did("rmtree") /\ projDir = "dir") => Did("log:delete_dir")
        /\ pc = "done"

\* ---- C28

\* the interpreter entry of the kernel's descriptor is <resource_dir>/python.sh
LaunchesThroughWrapper(k) ==
    k.desc.kind = "ok" /\ _get_python_executable_path(k.desc.argv) = StartScript

\* python.sh is on disk with its three lines
WrapperComplete(k) ==
    /\ k.wrapper.exists
    /\ k.wrapper.shebang = "bash" /\ k.wrapper.sources = "$HOME/.bashrc"
    /\ k.wrapper.execs # None /\ k.wrapper.forwards = "$@"

DescriptorWrapperConsistent(k) == LaunchesThroughWrapper(k) => WrapperComplete(k)

\* C28: in every state the kernel patch step reaches from a kernel whose
\* descriptor and wrapper are consistent, also when a write or chmod fails
\* part-way, a descriptor whose interpreter entry is <resource_dir>/python.sh
\* has the complete wrapper script on disk.
C28_DescriptorWrapperConsistent ==
    (cmd \in {"attach", "build"} /\ DescriptorWrapperConsistent(atEntry.kernel)) =>
        DescriptorWrapperConsistent(kernel)

\* ---- C29

\* create_project is called for a path that exists, or with an invalid name
RejectedAtEntry ==
    cmd = "create" /\ pc = "c_start" /\ (projDir # "absent" \/ ~inp.name_valid)

\* C29: create_project called for a working_directory/project_name that
\* already exists, or with an invalid project name, ends at once with exit
\* status 1, before the template is materialized and without delete_folder,
\* and leaves the path as it was; nothing happens after that exit, and rmtree
\* is only ever called on a directory the template step of this run made.
C29_ExistingDirectoryUntouched ==
    /\ [][RejectedAtEntry =>
              /\ pc' = "terminated" /\ exitStatus' = "1"
              /\ raised' = [kind |-> "SystemExit", code |-> "1"]
              /\ projDir' = projDir
              /\ \A i \in 1..Len(events') :
                     events'[i] \notin {"sub:template", "rmtree", "caught:SystemExit:1"}]_vars
    /\ [][(cmd = "create" /\ pc = "terminated") => projDir' = projDir]_vars
    /\ []((cmd = "create" /\ Did("rmtree")) => Did("sub:template"))

C29_Witness ==
    /\ cmd = "create" /\ pc = "terminated"
    /\ projDir = "dir" /\ inp.name_valid /\ ~inp.memory_full
    /\ Did("print:project_exists") /\ exitStatus = "1"

\* ---- C30

\* the build has called reset_project_git_configuration and it has returned
ProjectRepairReturned ==
    cmd = "build" /\ Did("reset:project") /\ pc # "b_gitconfig"

\* C30: the "Restored recommended .gitattributes .gitignore" message is
\* printed iff the repair copied both files; a repair that failed prints only
\* the "Could not restore" message and writes an error log; either way the
\* build goes on with the package-source step.
C30_RestoredOnlyOnSuccess ==
    /\ ProjectRepairReturned =>
          /\ Did("print:restored") <=> ~Did("print:could_not_restore")
          /\ Did("print:could_not_restore") => Did("log:reset_project_git_configuration")
          /\ pc = "b_source" \/ Did("step:source")
    /\ Repaired =>
          /\ Did("print:restored") <=> RepairSucceeded
          /\ ~RepairSucceeded =>
                Did("print:could_not_restore") /\ Did("log:reset_project_git_configuration")

====
